---- MODULE Spec2Model ----
(***************************************************************************)
(* State-machine model of the COE blog/event backend.                      *)
(*                                                                         *)
(* Two front ends share one relational store:                              *)
(*   - src/app/modules/*: every request runs in ONE transaction on the     *)
(*     cursor handed out by get_db (commit after the handler returns);     *)
(*   - src/main.py + src/database.py: every statement is its own           *)
(*     transaction (DatabaseManager._execute commits per statement).       *)
(* The store is PostgreSQL at READ COMMITTED: a statement sees the rows     *)
(* committed when it starts plus its own transaction's writes; a write      *)
(* waits for a concurrent transaction holding the row and then acts on the  *)
(* committed row.  Each statement of a handler is one step of the request.  *)
(***************************************************************************)
EXTENDS Integers, Sequences, FiniteSets, TLC

\* ---------------------------------------------------------------- bounds
NumClients == 2
MaxBlogs == 1
MaxListed == 2
MaxNewDomains == 2
MaxEvents == 1
MaxClock == 1
MaxRegs == 3
\* DB_POOL_MAX of the environment (database.py's pool; 20 when unset)
DB_POOL_MAX == 1

Procs == 1..NumClients

\* ------------------------------------------------------------ data values
None == "None"

\* default_domains of _ensure_tables_exist, inserted when the table is empty
default_domains ==
  << "Computer Science", "Information Technology", "Electronics",
     "Mechanical Engineering", "Civil Engineering" >>

\* Values a client may send.  Titles and contents are character sequences
\* (the listing's ILIKE looks inside them); <<>> is an absent or empty value.
DomainNames == {"Computer Science", "X"}
BlogIds == 1..MaxBlogs
ListedIds == 1..MaxListed
EventIdIn == 1..(MaxEvents + 1)
TitleIn == <<"A">>
\* title VARCHAR(500): the longest title the blogs table takes, and one
\* character more
TitleLimit == 500
LongTitle == [i \in 1..(TitleLimit + 1) |-> "A"]
ContentIn == <<"B">>
AuthorIn == "C"
NamePatch == {"", "X"}
\* BlogUpdate bodies: nothing set, text fields set, every field set
Patch(t, c, a, n) == [title |-> t, content |-> c, author |-> a, name |-> n]
NoPatch == Patch(<<>>, <<>>, "", "")
TextPatch == Patch(<<"a", "2">>, <<"b", "2">>, "", "")
FullPatch == Patch(<<"a", "2">>, <<"b", "2">>, "D", "X")
Patches == {NoPatch, TextPatch, FullPatch}
\* Two patches that set different fields
TitlePatch == Patch(<<"t">>, <<>>, "", "")
ContentPatch == Patch(<<>>, <<"c">>, "", "")
ReasonIn == {"", "spam"}
SearchIn == {<<>>, <<"a">>}

\* Python truthiness of an Optional[str]: a name, or a character sequence
Truthy(s) == s # None /\ s # ""
TruthySeq(s) == Len(s) > 0

\* ---------------------------------------------------------------- state
VARIABLES
  domains,      \* committed table domains:  id -> [name]
  blogs,        \* committed table blogs:    id -> row
  events,       \* committed table events:   id -> row
  domain_seq,   \* SERIAL sequence of domains.id (last value handed out)
  blog_seq,     \* SERIAL sequence of blogs.id
  event_seq,    \* SERIAL sequence of events.id
  clock,        \* the store's clock (NOW(), CURRENT_TIMESTAMP)
  req,          \* per client: the request in flight, its position and result
  tx,           \* per client: the uncommitted writes of its transaction
  registrations,\* committed table event_registrations: id -> row
  reg_seq,      \* SERIAL sequence of event_registrations.id
  schema,       \* the tables that exist in the store
  used,         \* db_manager.pool._used: the clients holding a connection
  app_used,     \* DB_POOL of app/db/connection.py: the same
  exec,         \* per client: its call of DatabaseManager._execute
  db_query_total,            \* Counter: query_type -> its value
  db_query_duration_seconds, \* Histogram: query_type -> number of observations
  executor_calls,            \* query_type -> calls of execute_* made (history)
  db_active_connections,     \* Gauge: its value
  lifecycle,    \* the server: created, running, shutdown (handler ran), closed
  tasks,        \* background task -> absent, pending or cancelled
  iterations    \* background task -> sampling iterations it has made

vars == <<domains, blogs, events, domain_seq, blog_seq, event_seq, clock, req, tx,
          registrations, reg_seq, schema, used, app_used, exec,
          db_query_total, db_query_duration_seconds, executor_calls,
          db_active_connections, lifecycle, tasks, iterations>>
tables == <<domains, blogs, events>>
seqs == <<domain_seq, blog_seq, event_seq>>
regs == <<registrations, reg_seq>>
pools == <<used, app_used, exec>>
\* The query metrics follow the executor calls that are modelled statement
\* by statement (execute_query_call .. get_connection_finally and
\* AdminDB_get_dashboard_stats); the repository actions that run a call in
\* one step leave them alone.
metrics == <<db_query_total, db_query_duration_seconds, executor_calls>>
background == <<db_active_connections, lifecycle, tasks, iterations>>
\* The state of the server process outside its pools
process == <<metrics, background>>
\* What the requests on blogs, domains and events leave alone
infra == <<regs, schema, pools, process>>

\* The statement kinds the executor is called with here, and a metric no
\* call has touched
QueryTypes == {"SELECT", "INSERT"}
NoSamples == [k \in QueryTypes |-> 0]

\* The tasks startup_event creates
TaskNames == {"update_db_metrics_task", "update_system_metrics_task"}

\* ------------------------------------------------------- finite functions
EmptyFn == [i \in {} |-> 0]
Put(f, k, v) == [i \in DOMAIN f \cup {k} |-> IF i = k THEN v ELSE f[i]]
Apply(base, put, del) ==
  [i \in (DOMAIN base \cup DOMAIN put) \ del |->
     IF i \in DOMAIN put THEN put[i] ELSE base[i]]

\* --------------------------------------------------------- transactions
NoTx ==
  [dput |-> EmptyFn, ddel |-> {}, bput |-> EmptyFn, bdel |-> {},
   eput |-> EmptyFn, edel |-> {}, aborted |-> FALSE]

\* One call of db_manager.execute_query / execute_insert, statement by
\* statement of get_connection and _execute.  exec[p] is the call of client
\* p: conn (the local of get_connection is not None), ran (how often
\* cursor.execute ran), err (what was raised), rolled (conn.rollback() ran),
\* out (what the cursor fetched).
NoExec == [conn |-> FALSE, ran |-> 0, err |-> "none", rolled |-> FALSE, out |-> <<>>]

\* What a statement of client p sees (READ COMMITTED + own writes)
VDomains(p) == Apply(domains, tx[p].dput, tx[p].ddel)
VBlogs(p) == Apply(blogs, tx[p].bput, tx[p].bdel)
VEvents(p) == Apply(events, tx[p].eput, tx[p].edel)

\* Row locks held by other clients' open transactions
BlogLocked(p, i) ==
  /\ i \in DOMAIN blogs
  /\ \E q \in Procs \ {p} : i \in DOMAIN tx[q].bput \cup tx[q].bdel
DomainLocked(p, d) ==
  \E q \in Procs \ {p} : d \in tx[q].ddel
DomainNameBusy(p, n) ==
  \E q \in Procs \ {p} :
     \/ \E i \in DOMAIN tx[q].dput : tx[q].dput[i].name = n
     \/ \E i \in tx[q].ddel : i \in DOMAIN domains /\ domains[i].name = n
DomainReferenced(p, d) ==
  \E q \in Procs \ {p} :
     \/ \E i \in DOMAIN tx[q].bput : tx[q].bput[i].domain_id = d
     \/ \E i \in DOMAIN tx[q].eput : tx[q].eput[i].domain_id = d

\* ------------------------------------------------------------- requests
NoResp == [code |-> 0, detail |-> "", body |-> <<>>, n |-> 0]
Resp(code, detail, body) == [code |-> code, detail |-> detail, body |-> body, n |-> 0]

IdleReq ==
  [op |-> "idle", pc |-> "idle", id |-> 0, title |-> <<>>, content |-> <<>>,
   author |-> "", name |-> "", reason |-> "", search |-> <<>>,
   loc |-> 0, pre |-> "", res |-> NoResp, made |-> 0]

Free(p) == req[p].pc = "idle"

\* Ghost: the committed status of blog i when a call starts
StatusOf(i) == IF i \in DOMAIN blogs THEN blogs[i].status ELSE "absent"

\* SELECT b.*, d.name AS domain_name FROM blogs b JOIN domains d
\*   ON b.domain_id = d.id WHERE b.id = %s   (fetchone: <<>> or <<row>>)
BlogOut(i, b, dname) ==
  [id |-> i, title |-> b.title, content |-> b.content,
   author_name |-> b.author_name, domain_id |-> b.domain_id,
   domain_name |-> dname, status |-> b.status,
   rejection_reason |-> b.rejection_reason,
   created_at |-> b.created_at, updated_at |-> b.updated_at]
SelectBlogJoin(vb, vd, i) ==
  IF i \in DOMAIN vb /\ vb[i].domain_id \in DOMAIN vd
  THEN << BlogOut(i, vb[i], vd[vb[i].domain_id].name) >>
  ELSE <<>>

\* required_tables of check_database_health: the tables _ensure_tables_exist
\* creates
required_tables == {"domains", "blogs", "events", "event_registrations"}

\* ------------------------------------------------------------------ Init
Init ==
  /\ domains = [i \in 1..Len(default_domains) |-> [name |-> default_domains[i]]]
  /\ blogs = EmptyFn
  /\ events = EmptyFn
  /\ domain_seq = Len(default_domains)
  /\ blog_seq = 0
  /\ event_seq = 0
  /\ clock = 0
  /\ req = [p \in Procs |-> IdleReq]
  /\ tx = [p \in Procs |-> NoTx]
  /\ registrations = EmptyFn
  /\ reg_seq = 0
  /\ schema = required_tables
  /\ used = {}
  /\ app_used = {}
  /\ exec = [p \in Procs |-> NoExec]
  /\ db_query_total = NoSamples
  /\ db_query_duration_seconds = NoSamples
  /\ executor_calls = NoSamples
  /\ db_active_connections = 0
  /\ lifecycle = "created"
  /\ tasks = [t \in TaskNames |-> "absent"]
  /\ iterations = [t \in TaskNames |-> 0]

\* Time passes
Tick ==
  /\ clock < MaxClock
  /\ clock' = clock + 1
  /\ UNCHANGED <<tables, seqs, req, tx, infra>>

\* ------------------------------------------------------------- get_db
\* maxconn of DB_POOL = pool.SimpleConnectionPool(1, 20, ...)
DB_POOL_maxconn == 20

\* get_db up to its yield: conn = DB_POOL.getconn().  The pool hands a
\* connection out while fewer than maxconn are checked out; there are fewer
\* clients than that.
get_db_getconn(p) ==
  /\ Cardinality(app_used) < DB_POOL_maxconn
  /\ app_used' = app_used \cup {p}

\* ON DELETE CASCADE of event_registrations.event_id: the rows left once the
\* events ve are the ones stored
CascadeRegs(vr, ve) ==
  [i \in {j \in DOMAIN vr : vr[j].event_id \in DOMAIN ve} |-> vr[i]]

\* get_db after its yield, the handler having returned: conn.commit() (a
\* failed transaction commits nothing), cursor.close(), DB_POOL.putconn(conn)
get_db_commit(p) ==
  /\ req[p].pc = "finish"
  /\ IF tx[p].aborted
     THEN UNCHANGED <<tables, registrations>>
     ELSE /\ domains' = VDomains(p)
          /\ blogs' = VBlogs(p)
          /\ events' = VEvents(p)
          /\ registrations' = CascadeRegs(registrations, VEvents(p))
  /\ tx' = [tx EXCEPT ![p] = NoTx]
  /\ req' = [req EXCEPT ![p] = IdleReq]
  /\ app_used' = app_used \ {p}
  /\ UNCHANGED <<seqs, clock, reg_seq, schema, used, exec, process>>

\* ------------------------------------------- admin: approve / reject
\* WHERE id=%s of approve_blog's and reject_blog's UPDATE
approve_blog_where(vb, i) == i \in DOMAIN vb
reject_blog_where(vb, i) == i \in DOMAIN vb
\* the approval with its status assignment left out
approve_blog_set_kept(b, now) == [b EXCEPT !.updated_at = now]
\* SET status='approved', updated_at=NOW()
approve_blog_set(b, now) == [b EXCEPT !.status = "approved", !.updated_at = now]
reject_blog_set_swapped(b, reason, now) ==
  [b EXCEPT !.status = reason, !.rejection_reason = "rejected", !.updated_at = now]
\* SET status='rejected', rejection_reason=%s, updated_at=NOW()
reject_blog_set(b, reason, now) ==
  [b EXCEPT !.status = "rejected", !.rejection_reason = reason, !.updated_at = now]

\* routes.approve / routes.reject: the answer for the service's return value
admin_route(ret) ==
  IF ret = <<>>
  THEN Resp(404, "Blog not found or already processed", ret)
  ELSE Resp(200, "success", ret)

approve_call(p, ids) ==
  /\ Free(p)
  /\ \E i \in ids :
       req' = [req EXCEPT ![p] =
                 [IdleReq EXCEPT !.op = "approve_blog", !.pc = "update",
                                 !.id = i, !.pre = StatusOf(i)]]
  /\ get_db_getconn(p)
  /\ UNCHANGED <<tables, seqs, clock, tx, regs, schema, used, exec, process>>

\* UPDATE ... RETURNING id, then the SELECT of the row just written
approve_blog(p) ==
  LET r == req[p]
      vb == VBlogs(p)
  IN
  /\ r.op = "approve_blog" /\ r.pc = "update"
  /\ ~BlogLocked(p, r.id)
  /\ IF approve_blog_where(vb, r.id)
     THEN LET b == approve_blog_set(vb[r.id], clock)
              ret == SelectBlogJoin(Put(vb, r.id, b), VDomains(p), r.id)
          IN /\ tx' = [tx EXCEPT ![p].bput = Put(@, r.id, b)]
             /\ req' = [req EXCEPT ![p].pc = "finish", ![p].res = admin_route(ret)]
     ELSE /\ req' = [req EXCEPT ![p].pc = "finish", ![p].res = admin_route(<<>>)]
          /\ UNCHANGED tx
  /\ UNCHANGED <<tables, seqs, clock, infra>>

reject_call(p, ids) ==
  /\ Free(p)
  /\ \E i \in ids, reason \in ReasonIn :
       req' = [req EXCEPT ![p] =
                 [IdleReq EXCEPT !.op = "reject_blog",
                                 !.id = i, !.reason = reason, !.pre = StatusOf(i),
                                 !.pc = IF Truthy(reason) THEN "update" ELSE "finish",
                                 !.res = IF Truthy(reason) THEN NoResp
                                         ELSE Resp(400, "Rejection reason is required", <<>>)]]
  /\ get_db_getconn(p)
  /\ UNCHANGED <<tables, seqs, clock, tx, regs, schema, used, exec, process>>

reject_blog(p) ==
  LET r == req[p]
      vb == VBlogs(p)
  IN
  /\ r.op = "reject_blog" /\ r.pc = "update"
  /\ ~BlogLocked(p, r.id)
  /\ IF reject_blog_where(vb, r.id)
     THEN LET b == reject_blog_set(vb[r.id], r.reason, clock)
              ret == SelectBlogJoin(Put(vb, r.id, b), VDomains(p), r.id)
          IN /\ tx' = [tx EXCEPT ![p].bput = Put(@, r.id, b)]
             /\ req' = [req EXCEPT ![p].pc = "finish", ![p].res = admin_route(ret)]
     ELSE /\ req' = [req EXCEPT ![p].pc = "finish", ![p].res = admin_route(<<>>)]
          /\ UNCHANGED tx
  /\ UNCHANGED <<tables, seqs, clock, infra>>

\* --------------------------------------------------- get_or_create_domain
\* the lookup finding no row
select_domain_id_never(vd, n) == <<>>
\* SELECT id FROM domains WHERE name = %s  (fetchone)
select_domain_id(vd, n) ==
  IF \E i \in DOMAIN vd : vd[i].name = n
  THEN << CHOOSE i \in DOMAIN vd : vd[i].name = n >>
  ELSE <<>>

\* UNIQUE(name) of table domains
NameTaken(vd, n) == \E i \in DOMAIN vd : vd[i].name = n

\* INSERT INTO domains (name) VALUES (%s) RETURNING id: the sequence advances
\* even when the row is refused
insert_domain(vd, seq, n) ==
  IF NameTaken(vd, n)
  THEN [ok |-> FALSE, id |-> -1, domains |-> vd, seq |-> seq + 1]
  ELSE [ok |-> TRUE, id |-> seq + 1,
        domains |-> Put(vd, seq + 1, [name |-> n]), seq |-> seq + 1]

\* get_or_create_domain run without interruption: the id returned (-1 for
\* None) and the table and sequence it leaves
get_or_create_domain(vd, seq, n) ==
  LET found == select_domain_id(vd, n)
      ins == insert_domain(vd, seq, n)
  IN IF found # <<>>
     THEN [id |-> found[1], domains |-> vd, seq |-> seq]
     ELSE [id |-> ins.id, domains |-> ins.domains, seq |-> ins.seq]

MaxDomainSeq == Len(default_domains) + MaxNewDomains
\* Calls that may still draw from a sequence, so that the bound is never hit
\* in the middle of a call
MayInsertDomain(q) ==
  \/ /\ req[q].op \in {"create_blog", "update_blog"}
     /\ req[q].pc \in {"select", "goc_select", "goc_insert"}
     /\ Truthy(req[q].name)
  \/ /\ req[q].op \in {"db_create_blog", "db_update_blog"}
     /\ req[q].pc \in {"db_get", "db_goc_select", "db_goc_insert"}
MayInsertBlog(q) ==
  \/ /\ req[q].op = "create_blog"
     /\ req[q].pc \in {"goc_select", "goc_insert", "insert"}
  \/ /\ req[q].op = "db_create_blog"
     /\ req[q].pc \in {"db_goc_select", "db_goc_insert", "db_insert"}
DomainBudget(p) ==
  domain_seq + Cardinality({q \in Procs \ {p} : MayInsertDomain(q)}) < MaxDomainSeq
BlogBudget(p, limit) ==
  blog_seq + Cardinality({q \in Procs \ {p} : MayInsertBlog(q)}) < limit

\* Where a service handler continues once get_or_create_domain has returned
after_goc(op) == IF op = "create_blog" THEN "insert" ELSE "update"

\* service.get_or_create_domain, first statement: the lookup
get_or_create_domain_select(p) ==
  LET r == req[p]
      found == select_domain_id(VDomains(p), r.name)
  IN
  /\ r.op \in {"create_blog", "update_blog"} /\ r.pc = "goc_select"
  /\ req' = [req EXCEPT ![p].pc = IF found # <<>> THEN after_goc(r.op) ELSE "goc_insert",
                        ![p].loc = IF found # <<>> THEN found[1] ELSE 0]
  /\ UNCHANGED <<tables, seqs, clock, tx, infra>>

\* service.get_or_create_domain, second statement: INSERT ... RETURNING id.
\* A name committed meanwhile violates UNIQUE(name): the exception is caught,
\* None is returned, and the transaction is left failed.
get_or_create_domain_insert(p) ==
  LET r == req[p]
      ins == insert_domain(VDomains(p), domain_seq, r.name)
  IN
  /\ r.op \in {"create_blog", "update_blog"} /\ r.pc = "goc_insert"
  /\ ~DomainNameBusy(p, r.name)
  /\ domain_seq' = ins.seq
  /\ IF ins.ok
     THEN /\ tx' = [tx EXCEPT ![p].dput = Put(@, ins.id, [name |-> r.name])]
          /\ req' = [req EXCEPT ![p].pc = after_goc(r.op), ![p].loc = ins.id,
                                ![p].made = ins.id]
     ELSE /\ tx' = [tx EXCEPT ![p].aborted = TRUE]
          /\ req' = [req EXCEPT ![p].pc = after_goc(r.op), ![p].loc = -1]
  /\ UNCHANGED <<tables, blog_seq, event_seq, clock, infra>>

\* ------------------------------------------------- blogs: create_blog
\* INSERT INTO blogs (title, content, author_name, domain_id): the defaults
\* of the table give status, created_at and updated_at
new_blog_approved(title, content, author, did, now) ==
  [title |-> title, content |-> content, author_name |-> author,
   domain_id |-> did, status |-> "approved", rejection_reason |-> None,
   created_at |-> now, updated_at |-> now]
new_blog(title, content, author, did, now) ==
  [title |-> title, content |-> content, author_name |-> author,
   domain_id |-> did, status |-> "pending", rejection_reason |-> None,
   created_at |-> now, updated_at |-> now]

\* routes.submit_blog has response_model BlogOut: a None fails validation
submit_route(ret) ==
  IF ret = <<>> THEN Resp(500, "Internal Server Error", ret)
  ELSE Resp(200, "", ret)

create_blog_call(p, names, limit, titles) ==
  /\ Free(p)
  /\ BlogBudget(p, limit)
  /\ DomainBudget(p)
  /\ \E n \in names, t \in titles :
       req' = [req EXCEPT ![p] =
                 [IdleReq EXCEPT !.op = "create_blog", !.pc = "goc_select",
                                 !.title = t, !.content = ContentIn,
                                 !.author = AuthorIn, !.name = n]]
  /\ get_db_getconn(p)
  /\ UNCHANGED <<tables, seqs, clock, tx, regs, schema, used, exec, process>>

\* service.create_blog after get_or_create_domain: the INSERT and the SELECT
\* of the row just written
create_blog(p) ==
  LET r == req[p]
      new == blog_seq + 1
      b == new_blog(r.title, r.content, r.author, r.loc, clock)
  IN
  /\ r.op = "create_blog" /\ r.pc = "insert"
  /\ IF r.loc = -1 \/ tx[p].aborted
     THEN \* domain_id is None: "Domain creation failed"
          /\ req' = [req EXCEPT ![p].pc = "finish", ![p].res = submit_route(<<>>)]
          /\ UNCHANGED <<tx, blog_seq>>
     ELSE IF Len(r.title) > TitleLimit
     THEN \* value too long for type character varying(500)
          /\ tx' = [tx EXCEPT ![p].aborted = TRUE]
          /\ req' = [req EXCEPT ![p].pc = "finish", ![p].res = submit_route(<<>>)]
          /\ blog_seq' \in {blog_seq, new}
     ELSE /\ ~DomainLocked(p, r.loc)
          /\ blog_seq' = new
          /\ IF r.loc \in DOMAIN VDomains(p)
             THEN /\ tx' = [tx EXCEPT ![p].bput = Put(@, new, b)]
                  /\ req' = [req EXCEPT ![p].pc = "finish",
                        ![p].res = submit_route(
                           SelectBlogJoin(Put(VBlogs(p), new, b), VDomains(p), new))]
             ELSE \* the domain row is gone: foreign-key violation
                  /\ tx' = [tx EXCEPT ![p].aborted = TRUE]
                  /\ req' = [req EXCEPT ![p].pc = "finish", ![p].res = submit_route(<<>>)]
  /\ UNCHANGED <<tables, domain_seq, event_seq, clock, infra>>

\* ------------------------------------------------- blogs: update_blog
\* SELECT * FROM blogs WHERE id = %s AND status = 'pending'  (fetchone)
BlogRow(i, b) ==
  [id |-> i, title |-> b.title, content |-> b.content,
   author_name |-> b.author_name, domain_id |-> b.domain_id,
   status |-> b.status, rejection_reason |-> b.rejection_reason,
   created_at |-> b.created_at, updated_at |-> b.updated_at]
\* the pending check with its status condition left out
select_pending_any(vb, i) ==
  IF i \in DOMAIN vb THEN << BlogRow(i, vb[i]) >> ELSE <<>>
select_pending(vb, i) ==
  IF i \in DOMAIN vb /\ vb[i].status = "pending" THEN << BlogRow(i, vb[i]) >> ELSE <<>>

\* The SET list update_blog builds from the fields that are set
update_blog_set(b, title, content, did, now) ==
  [b EXCEPT !.title = IF TruthySeq(title) THEN title ELSE @,
            !.content = IF TruthySeq(content) THEN content ELSE @,
            !.domain_id = IF did # 0 THEN did ELSE @,
            !.updated_at = now]

\* routes.edit_blog (response_model BlogOut, which requires domain_name)
edit_route(ret) ==
  IF ret = <<>> THEN Resp(400, "Cannot update blog (only pending blogs)", ret)
  ELSE IF "domain_name" \in DOMAIN ret[1] THEN Resp(200, "", ret)
  ELSE Resp(500, "Internal Server Error", ret)

update_blog_call(p, ids, patches) ==
  /\ Free(p)
  /\ \E i \in ids, d \in patches :
       /\ Truthy(d.name) => DomainBudget(p)
       /\ req' = [req EXCEPT ![p] =
                 [IdleReq EXCEPT !.op = "update_blog", !.pc = "select", !.id = i,
                                 !.title = d.title, !.content = d.content,
                                 !.name = d.name, !.pre = StatusOf(i)]]
  /\ get_db_getconn(p)
  /\ UNCHANGED <<tables, seqs, clock, tx, regs, schema, used, exec, process>>

\* service.update_blog, first statement: the pending check
update_blog_select(p) ==
  LET r == req[p]
      existing == select_pending(VBlogs(p), r.id)
  IN
  /\ r.op = "update_blog" /\ r.pc = "select"
  /\ req' = [req EXCEPT ![p] =
       IF existing = <<>>
       THEN [r EXCEPT !.pc = "finish", !.res = edit_route(<<>>)]
       ELSE IF Truthy(r.name) THEN [r EXCEPT !.pc = "goc_select"]
       ELSE IF TruthySeq(r.title) \/ TruthySeq(r.content) THEN [r EXCEPT !.pc = "update"]
       ELSE [r EXCEPT !.pc = "finish", !.res = edit_route(existing)]]
  /\ UNCHANGED <<tables, seqs, clock, tx, infra>>

\* service.update_blog, the UPDATE ... WHERE id = %s RETURNING id and the
\* SELECT of the row just written
update_blog(p) ==
  LET r == req[p]
      vb == VBlogs(p)
  IN
  /\ r.op = "update_blog" /\ r.pc = "update"
  /\ IF tx[p].aborted
     THEN \* "current transaction is aborted": caught, None
          /\ req' = [req EXCEPT ![p].pc = "finish", ![p].res = edit_route(<<>>)]
          /\ UNCHANGED tx
     ELSE /\ ~BlogLocked(p, r.id)
          /\ r.loc # 0 => ~DomainLocked(p, r.loc)
          /\ IF r.id \notin DOMAIN vb
             THEN \* no row: fetchone() is None, ["id"] raises, caught
                  /\ req' = [req EXCEPT ![p].pc = "finish", ![p].res = edit_route(<<>>)]
                  /\ UNCHANGED tx
             ELSE IF r.loc # 0 /\ r.loc \notin DOMAIN VDomains(p)
             THEN \* foreign-key violation
                  /\ tx' = [tx EXCEPT ![p].aborted = TRUE]
                  /\ req' = [req EXCEPT ![p].pc = "finish", ![p].res = edit_route(<<>>)]
             ELSE LET b == update_blog_set(vb[r.id], r.title, r.content, r.loc, clock)
                  IN /\ tx' = [tx EXCEPT ![p].bput = Put(@, r.id, b)]
                     /\ req' = [req EXCEPT ![p].pc = "finish",
                           ![p].res = edit_route(
                              SelectBlogJoin(Put(vb, r.id, b), VDomains(p), r.id))]
  /\ UNCHANGED <<tables, seqs, clock, infra>>

\* ------------------------------------------------------------- listings
\* ILIKE '%s%': case-insensitive substring
Lower(c) ==
  CASE c = "A" -> "a"
    [] c = "B" -> "b"
    [] OTHER -> c
ILike(t, s) ==
  \E k \in 0..(Len(t) - Len(s)) : \A j \in 1..Len(s) : Lower(t[k + j]) = Lower(s[j])

\* The orders ORDER BY b.created_at DESC may return the rows ids in
OrderAny(vb, ids) ==
  { s \in [1..Cardinality(ids) -> ids] :
      \A i, j \in 1..Cardinality(ids) : i # j => s[i] # s[j] }
OrderDesc(vb, ids) ==
  { s \in [1..Cardinality(ids) -> ids] :
      /\ \A i, j \in 1..Cardinality(ids) : i # j => s[i] # s[j]
      /\ \A i, j \in 1..Cardinality(ids) :
           i < j => vb[s[i]].created_at >= vb[s[j]].created_at }

\* WHERE clause of service.list_blogs
list_blogs_where(vb, vd, i, domain_name, search) ==
  /\ vb[i].domain_id \in DOMAIN vd
  /\ vb[i].status = "approved"
  /\ Truthy(domain_name) => vd[vb[i].domain_id].name = domain_name
  /\ TruthySeq(search) => ILike(vb[i].title, search)

list_blogs_call(p) ==
  /\ Free(p)
  /\ \E n \in NamePatch, q \in SearchIn :
       req' = [req EXCEPT ![p] =
                 [IdleReq EXCEPT !.op = "list_blogs", !.pc = "select",
                                 !.name = n, !.search = q]]
  /\ get_db_getconn(p)
  /\ UNCHANGED <<tables, seqs, clock, tx, regs, schema, used, exec, process>>

list_blogs(p) ==
  LET r == req[p]
      vb == VBlogs(p)
      vd == VDomains(p)
      ids == {i \in DOMAIN vb : list_blogs_where(vb, vd, i, r.name, r.search)}
  IN
  /\ r.op = "list_blogs" /\ r.pc = "select"
  /\ \E s \in OrderDesc(vb, ids) :
       req' = [req EXCEPT ![p].pc = "finish",
                 ![p].res = Resp(200, "",
                    [k \in 1..Len(s) |-> BlogOut(s[k], vb[s[k]], vd[vb[s[k]].domain_id].name)])]
  /\ UNCHANGED <<tables, seqs, clock, tx, infra>>

\* WHERE clause of BlogsDB.get_blogs
get_blogs_where(vb, vd, i, domain_name, search) ==
  /\ vb[i].domain_id \in DOMAIN vd
  /\ Truthy(domain_name) => vd[vb[i].domain_id].name = domain_name
  /\ TruthySeq(search) => (ILike(vb[i].title, search) \/ ILike(vb[i].content, search))

\* ------------------------------------------------- domains: delete_domain
\* the count with its WHERE clause left out
count_blogs_all(vb, d) == Cardinality(DOMAIN vb)
\* SELECT COUNT(*) as count FROM blogs WHERE domain_id = %s
count_blogs(vb, d) == Cardinality({i \in DOMAIN vb : vb[i].domain_id = d})

\* Rows that reference domain d: ON DELETE CASCADE removes them with it
BlogsOf(vb, d) == {i \in DOMAIN vb : vb[i].domain_id = d}
EventsOf(ve, d) == {i \in DOMAIN ve : ve[i].domain_id = d}

delete_domain_call(p, ids) ==
  /\ Free(p)
  /\ \E d \in ids :
       req' = [req EXCEPT ![p] =
                 [IdleReq EXCEPT !.op = "delete_domain", !.pc = "count", !.id = d]]
  /\ get_db_getconn(p)
  /\ UNCHANGED <<tables, seqs, clock, tx, regs, schema, used, exec, process>>

\* service.delete_domain, first statement: the reference count
delete_domain_count(p) ==
  LET r == req[p]
      count == count_blogs(VBlogs(p), r.id)
  IN
  /\ r.op = "delete_domain" /\ r.pc = "count"
  /\ req' = [req EXCEPT ![p] =
       IF count > 0
       THEN [r EXCEPT !.pc = "finish", !.loc = count,
                      !.res = [Resp(400, "blog(s) are attached", <<>>) EXCEPT !.n = count]]
       ELSE [r EXCEPT !.pc = "delete", !.loc = count]]
  /\ UNCHANGED <<tables, seqs, clock, tx, infra>>

\* service.delete_domain, second statement: DELETE ... RETURNING *
delete_domain(p) ==
  LET r == req[p]
      vd == VDomains(p)
      gone_b == BlogsOf(VBlogs(p), r.id)
      gone_e == EventsOf(VEvents(p), r.id)
  IN
  /\ r.op = "delete_domain" /\ r.pc = "delete"
  /\ ~DomainLocked(p, r.id)
  /\ r.id \in DOMAIN vd => (~DomainReferenced(p, r.id) /\ \A i \in gone_b : ~BlogLocked(p, i))
  /\ IF r.id \in DOMAIN vd
     THEN /\ tx' = [tx EXCEPT ![p].ddel = @ \cup {r.id},
                              ![p].bdel = @ \cup gone_b,
                              ![p].edel = @ \cup gone_e]
          /\ req' = [req EXCEPT ![p].pc = "finish",
                ![p].res = Resp(200, "Domain deleted", << [id |-> r.id, name |-> vd[r.id].name] >>)]
     ELSE /\ req' = [req EXCEPT ![p].pc = "finish",
                ![p].res = Resp(404, "Domain not found", <<>>)]
          /\ UNCHANGED tx
  /\ UNCHANGED <<tables, seqs, clock, infra>>

\* ===================== main.py over database.py =========================
\* Every statement runs in a transaction of its own (_execute under
\* get_connection), so it acts on the committed tables; it still waits for
\* rows other transactions hold.

\* The endpoint has its answer
respond(p) ==
  /\ req[p].pc = "respond"
  /\ req' = [req EXCEPT ![p] = IdleReq]
  /\ UNCHANGED <<tables, seqs, clock, tx, infra>>

after_db_goc(op) == IF op = "db_create_blog" THEN "db_insert" ELSE "db_update"
\* main.create_blog / main.update_blog when the repository returned None
db_failed(op) ==
  IF op = "db_create_blog" THEN Resp(400, "Failed to create blog", <<>>)
  ELSE Resp(400, "Cannot update blog", <<>>)

\* BlogsDB.get_or_create_domain run without interruption: the id returned
\* (-1 for None) and the table and sequence it leaves
BlogsDB_get_or_create_domain(vd, seq, n) ==
  LET domain == select_domain_id(vd, n)
      new_domain == insert_domain(vd, seq, n)
  IN IF domain # <<>>
     THEN [id |-> domain[1], domains |-> vd, seq |-> seq]
     ELSE [id |-> new_domain.id, domains |-> new_domain.domains, seq |-> new_domain.seq]

\* BlogsDB.get_or_create_domain, first statement
BlogsDB_get_or_create_domain_select(p) ==
  LET r == req[p]
      found == select_domain_id(domains, r.name)
  IN
  /\ r.op \in {"db_create_blog", "db_update_blog"} /\ r.pc = "db_goc_select"
  /\ req' = [req EXCEPT ![p].pc = IF found # <<>> THEN after_db_goc(r.op) ELSE "db_goc_insert",
                        ![p].loc = IF found # <<>> THEN found[1] ELSE 0]
  /\ UNCHANGED <<tables, seqs, clock, tx, infra>>

\* BlogsDB.get_or_create_domain, second statement.  A name committed since
\* the lookup violates UNIQUE(name): the exception is caught and None is
\* returned, on which the caller gives up.
BlogsDB_get_or_create_domain_insert(p) ==
  LET r == req[p]
      new == domain_seq + 1
  IN
  /\ r.op \in {"db_create_blog", "db_update_blog"} /\ r.pc = "db_goc_insert"
  /\ ~DomainNameBusy(p, r.name)
  /\ domain_seq' = new
  /\ IF select_domain_id(domains, r.name) # <<>>
     THEN /\ req' = [req EXCEPT ![p].pc = "respond", ![p].loc = -1,
                                ![p].res = db_failed(r.op)]
          /\ UNCHANGED domains
     ELSE /\ domains' = Put(domains, new, [name |-> r.name])
          /\ req' = [req EXCEPT ![p].pc = after_db_goc(r.op), ![p].loc = new,
                                ![p].made = new]
  /\ UNCHANGED <<blogs, events, blog_seq, event_seq, clock, tx, infra>>

main_create_blog_call(p, names, limit, titles) ==
  /\ Free(p)
  /\ BlogBudget(p, limit)
  /\ DomainBudget(p)
  /\ \E n \in names, t \in titles :
       req' = [req EXCEPT ![p] =
                 [IdleReq EXCEPT !.op = "db_create_blog", !.pc = "db_goc_select",
                                 !.title = t, !.content = ContentIn,
                                 !.author = AuthorIn, !.name = n]]
  /\ UNCHANGED <<tables, seqs, clock, tx, infra>>

\* BlogsDB.create_blog: INSERT INTO blogs ... RETURNING id
BlogsDB_create_blog_insert(p) ==
  LET r == req[p]
      new == blog_seq + 1
  IN
  /\ r.op = "db_create_blog" /\ r.pc = "db_insert"
  /\ IF Len(r.title) > TitleLimit
     THEN \* value too long for type character varying(500)
          /\ blog_seq' \in {blog_seq, new}
          /\ req' = [req EXCEPT ![p].pc = "respond", ![p].res = db_failed(r.op)]
          /\ UNCHANGED blogs
     ELSE /\ ~DomainLocked(p, r.loc)
          /\ blog_seq' = new
          /\ IF r.loc \in DOMAIN domains
             THEN /\ blogs' = Put(blogs, new,
                                  new_blog(r.title, r.content, r.author, r.loc, clock))
                  /\ req' = [req EXCEPT ![p].pc = "db_select", ![p].id = new]
             ELSE \* foreign-key violation
                  /\ req' = [req EXCEPT ![p].pc = "respond", ![p].res = db_failed(r.op)]
                  /\ UNCHANGED blogs
  /\ UNCHANGED <<domains, events, domain_seq, event_seq, clock, tx, infra>>

\* BlogsDB.create_blog: the SELECT of the new row (blog['title'] on no row
\* raises, is caught, and None is returned)
BlogsDB_create_blog_select(p) ==
  LET r == req[p]
      blog == SelectBlogJoin(blogs, domains, r.id)
  IN
  /\ r.op = "db_create_blog" /\ r.pc = "db_select"
  /\ req' = [req EXCEPT ![p].pc = "respond",
                        ![p].res = IF blog = <<>> THEN db_failed(r.op) ELSE Resp(200, "", blog)]
  /\ UNCHANGED <<tables, seqs, clock, tx, infra>>

\* x or y
Or(x, y) == IF Truthy(x) THEN x ELSE y
OrSeq(x, y) == IF TruthySeq(x) THEN x ELSE y

main_update_blog_call(p, ids, patches) ==
  /\ Free(p)
  /\ DomainBudget(p)
  /\ \E i \in ids, d \in patches :
       req' = [req EXCEPT ![p] =
                 [patch |-> d] @@
                 [IdleReq EXCEPT !.op = "db_update_blog", !.pc = "db_get", !.id = i,
                                 !.title = d.title, !.content = d.content,
                                 !.author = d.author, !.name = d.name,
                                 !.pre = StatusOf(i)]]
  /\ UNCHANGED <<tables, seqs, clock, tx, infra>>

\* main.update_blog: current_blog = BlogsDB.get_blog_by_id(blog_id), and the
\* arguments it passes on
main_update_blog_get(p) ==
  LET r == req[p]
      current == SelectBlogJoin(blogs, domains, r.id)
  IN
  /\ r.op = "db_update_blog" /\ r.pc = "db_get"
  /\ req' = [req EXCEPT ![p] =
       IF current = <<>>
       THEN [r EXCEPT !.pc = "respond", !.res = Resp(404, "Blog not found", <<>>)]
       ELSE [r EXCEPT !.pc = "db_goc_select",
                      !.title = OrSeq(r.title, current[1].title),
                      !.content = OrSeq(r.content, current[1].content),
                      !.author = Or(r.author, current[1].author_name),
                      !.name = Or(r.name, current[1].domain_name)]]
  /\ UNCHANGED <<tables, seqs, clock, tx, infra>>

\* WHERE id = %s AND status = 'pending' of BlogsDB.update_blog's UPDATE
BlogsDB_update_blog_where(vb, i) == i \in DOMAIN vb /\ vb[i].status = "pending"
\* SET title, content, author_name, domain_id, updated_at
BlogsDB_update_blog_set(b, title, content, author, did, now) ==
  [b EXCEPT !.title = title, !.content = content, !.author_name = author,
            !.domain_id = did, !.updated_at = now]

\* BlogsDB.update_blog: the conditional UPDATE
BlogsDB_update_blog(p) ==
  LET r == req[p] IN
  /\ r.op = "db_update_blog" /\ r.pc = "db_update"
  /\ ~BlogLocked(p, r.id)
  /\ ~DomainLocked(p, r.loc)
  /\ IF BlogsDB_update_blog_where(blogs, r.id)
     THEN IF r.loc \in DOMAIN domains
          THEN /\ blogs' = [blogs EXCEPT ![r.id] =
                    BlogsDB_update_blog_set(@, r.title, r.content, r.author, r.loc, clock)]
               /\ req' = [req EXCEPT ![p].pc = "db_select"]
          ELSE \* foreign-key violation
               /\ req' = [req EXCEPT ![p].pc = "respond", ![p].res = db_failed(r.op)]
               /\ UNCHANGED blogs
     ELSE \* affected_rows == 0
          /\ req' = [req EXCEPT ![p].pc = "respond", ![p].res = db_failed(r.op)]
          /\ UNCHANGED blogs
  /\ UNCHANGED <<domains, events, seqs, clock, tx, infra>>

\* BlogsDB.update_blog: return BlogsDB.get_blog_by_id(blog_id)
BlogsDB_update_blog_select(p) ==
  LET r == req[p]
      blog == SelectBlogJoin(blogs, domains, r.id)
  IN
  /\ r.op = "db_update_blog" /\ r.pc = "db_select"
  /\ req' = [req EXCEPT ![p].pc = "respond",
                        ![p].res = IF blog = <<>> THEN db_failed(r.op) ELSE Resp(200, "", blog)]
  /\ UNCHANGED <<tables, seqs, clock, tx, infra>>

main_get_blogs_call(p) ==
  /\ Free(p)
  /\ \E n \in NamePatch, q \in SearchIn :
       req' = [req EXCEPT ![p] =
                 [IdleReq EXCEPT !.op = "db_get_blogs", !.pc = "db_select",
                                 !.name = n, !.search = q]]
  /\ UNCHANGED <<tables, seqs, clock, tx, infra>>

\* BlogsDB.get_blogs
BlogsDB_get_blogs(p) ==
  LET r == req[p]
      ids == {i \in DOMAIN blogs : get_blogs_where(blogs, domains, i, r.name, r.search)}
  IN
  /\ r.op = "db_get_blogs" /\ r.pc = "db_select"
  /\ \E s \in OrderDesc(blogs, ids) :
       req' = [req EXCEPT ![p].pc = "respond",
                 ![p].res = Resp(200, "",
                    [k \in 1..Len(s) |->
                       BlogOut(s[k], blogs[s[k]], domains[blogs[s[k]].domain_id].name)])]
  /\ UNCHANGED <<tables, seqs, clock, tx, infra>>

\* INSERT INTO events (...) RETURNING *
new_event(did, now) ==
  [title |-> <<"E">>, description |-> <<"d">>, event_date |-> 0,
   event_type |-> "talk", domain_id |-> did, created_at |-> now]

main_create_event_call(p, dids) ==
  /\ Free(p)
  /\ event_seq + Cardinality({q \in Procs \ {p} : req[q].op = "db_create_event"}) < MaxEvents
  /\ \E d \in dids :
       req' = [req EXCEPT ![p] =
                 [IdleReq EXCEPT !.op = "db_create_event", !.pc = "db_insert", !.loc = d]]
  /\ UNCHANGED <<tables, seqs, clock, tx, infra>>

\* EventsDB.create_event and main.create_event's answer
EventsDB_create_event(p) ==
  LET r == req[p]
      new == event_seq + 1
  IN
  /\ r.op = "db_create_event" /\ r.pc = "db_insert"
  /\ ~DomainLocked(p, r.loc)
  /\ event_seq' = new
  /\ IF r.loc \in DOMAIN domains
     THEN /\ events' = Put(events, new, new_event(r.loc, clock))
          /\ req' = [req EXCEPT ![p].pc = "respond", ![p].id = new,
                 ![p].res = Resp(200, "", << [id |-> new, domain_id |-> r.loc] >>)]
     ELSE \* foreign-key violation
          /\ req' = [req EXCEPT ![p].pc = "respond",
                 ![p].res = Resp(400, "Failed to create event", <<>>)]
          /\ UNCHANGED events
  /\ UNCHANGED <<domains, blogs, domain_seq, blog_seq, clock, tx, infra>>

\* ------------------------------------------------------------------ Next
\* Moderation: submission, approval, rejection and editing of blogs
NextModeration ==
  \/ Tick
  \/ \E p \in Procs :
       \/ create_blog_call(p, {"Computer Science"}, MaxBlogs, {TitleIn})
       \/ get_or_create_domain_select(p)
       \/ get_or_create_domain_insert(p)
       \/ create_blog(p)
       \/ approve_call(p, BlogIds)
       \/ approve_blog(p)
       \/ reject_call(p, BlogIds)
       \/ reject_blog(p)
       \/ update_blog_call(p, BlogIds, Patches)
       \/ update_blog_select(p)
       \/ update_blog(p)
       \/ get_db_commit(p)
       \/ main_update_blog_call(p, BlogIds, Patches)
       \/ main_update_blog_get(p)
       \/ BlogsDB_get_or_create_domain_select(p)
       \/ BlogsDB_get_or_create_domain_insert(p)
       \/ BlogsDB_update_blog(p)
       \/ BlogsDB_update_blog_select(p)
       \/ respond(p)

SpecModeration == Init /\ [][NextModeration]_vars

\* Listing: the two public listings over moderated blogs
NextListing ==
  \/ \E p \in Procs :
       \/ create_blog_call(p, DomainNames, MaxListed, {TitleIn})
       \/ get_or_create_domain_select(p)
       \/ get_or_create_domain_insert(p)
       \/ create_blog(p)
       \/ approve_call(p, ListedIds)
       \/ approve_blog(p)
       \/ reject_call(p, ListedIds)
       \/ reject_blog(p)
       \/ list_blogs_call(p)
       \/ list_blogs(p)
       \/ main_get_blogs_call(p)
       \/ BlogsDB_get_blogs(p)
       \/ get_db_commit(p)
       \/ respond(p)

SpecListing == Init /\ [][NextListing]_vars

\* Domains: get-or-create by the blog writers, deletion, events
DomainIdIn == {1, Len(default_domains) + 1}
NextDomains ==
  \/ \E p \in Procs :
       \/ create_blog_call(p, DomainNames, MaxListed, {TitleIn})
       \/ get_or_create_domain_select(p)
       \/ get_or_create_domain_insert(p)
       \/ create_blog(p)
       \/ main_create_blog_call(p, DomainNames, MaxListed, {TitleIn})
       \/ BlogsDB_get_or_create_domain_select(p)
       \/ BlogsDB_get_or_create_domain_insert(p)
       \/ BlogsDB_create_blog_insert(p)
       \/ BlogsDB_create_blog_select(p)
       \/ delete_domain_call(p, DomainIdIn)
       \/ delete_domain_count(p)
       \/ delete_domain(p)
       \/ main_create_event_call(p, DomainIdIn)
       \/ EventsDB_create_event(p)
       \/ get_db_commit(p)
       \/ respond(p)

SpecDomains == Init /\ [][NextDomains]_vars

\* ===================== events: update_event =============================
\* schema.EventUpdate: every field optional; None, '' and 0 are falsy.
\* NoDate is the None of event_date.
NoDate == -1
EventPatches ==
  [title : {<<>>, <<"F">>}, description : {<<>>}, domain_id : {0, 1, 9},
   event_type : {"", "workshop"}, event_date : {NoDate, 5}]
EmptyPatch ==
  [title |-> <<>>, description |-> <<>>, domain_id |-> 0, event_type |-> "",
   event_date |-> NoDate]

\* The fields update_event puts in its SET list
event_fields(d) ==
  {f \in {"title", "description"} : TruthySeq(d[f])}
    \cup {f \in {"event_type"} : Truthy(d[f])}
    \cup {f \in {"domain_id"} : d[f] # 0}
    \cup {f \in {"event_date"} : d[f] # NoDate}

\* UPDATE events SET <fields>, updated_at = NOW(): the row afterwards.  The
\* events table is taken to carry the updated_at column the statement names.
update_event_set(row, d, fields, now) ==
  [updated_at |-> now] @@ [f \in DOMAIN row |-> IF f \in fields THEN d[f] ELSE row[f]]

\* routes.update_event: if not updated: 404
update_event_route(updated) ==
  IF updated = <<>> THEN Resp(404, "Event not found", <<>>)
  ELSE Resp(200, "", updated)

\* Another transaction holds the row lock of event e
EventRowLocked(p, e) ==
  \E q \in Procs \ {p} : e \in DOMAIN tx[q].eput \/ e \in tx[q].edel

update_event_call(p) ==
  /\ Free(p)
  /\ \E e \in EventIdIn, d \in EventPatches :
       req' = [req EXCEPT ![p] =
                 [patch |-> d] @@
                 [IdleReq EXCEPT !.op = "update_event", !.pc = "update", !.id = e]]
  /\ get_db_getconn(p)
  /\ UNCHANGED <<tables, seqs, clock, tx, regs, schema, used, exec, process>>

\* service.update_event and the answer of routes.update_event.  pre keeps
\* whether the event existed for the caller.
update_event(p) ==
  LET r == req[p]
      ve == VEvents(p)
      fields == event_fields(r.patch)
      was == IF r.id \in DOMAIN ve THEN "present" ELSE "absent"
      row == update_event_set(ve[r.id], r.patch, fields, clock)
  IN
  /\ r.op = "update_event" /\ r.pc = "update"
  /\ IF fields = {}
     THEN \* return None
          /\ req' = [req EXCEPT ![p].pc = "finish", ![p].pre = was,
                                ![p].res = update_event_route(<<>>)]
          /\ UNCHANGED tx
     ELSE /\ ~EventRowLocked(p, r.id)
          /\ IF r.id \notin DOMAIN ve
             THEN /\ req' = [req EXCEPT ![p].pc = "finish", ![p].pre = was,
                                ![p].res = update_event_route(<<>>)]
                  /\ UNCHANGED tx
             ELSE /\ "domain_id" \in fields => ~DomainLocked(p, r.patch.domain_id)
                  /\ IF "domain_id" \in fields /\ r.patch.domain_id \notin DOMAIN VDomains(p)
                     THEN \* foreign-key violation: except -> HTTPException(500)
                          /\ tx' = [tx EXCEPT ![p].aborted = TRUE]
                          /\ req' = [req EXCEPT ![p].pc = "finish", ![p].pre = was,
                                 ![p].res = Resp(500, "Failed to update event", <<>>)]
                     ELSE /\ tx' = [tx EXCEPT ![p].eput = Put(@, r.id, row)]
                          /\ req' = [req EXCEPT ![p].pc = "finish", ![p].pre = was,
                                 ![p].res = update_event_route(<< [id |-> r.id] @@ row >>)]
  /\ UNCHANGED <<tables, seqs, clock, infra>>

\* Events: creation, and partial updates by concurrent clients
NextEvents ==
  \/ Tick
  \/ \E p \in Procs :
       \/ main_create_event_call(p, {1})
       \/ EventsDB_create_event(p)
       \/ update_event_call(p)
       \/ update_event(p)
       \/ get_db_commit(p)
       \/ respond(p)

SpecEvents == Init /\ [][NextEvents]_vars

\* ===================== event registrations ==============================
\* Values a client may send: an event id (MaxEvents + 1 is never stored) and
\* an e-mail address
EmailIn == {"a@x", "b@x"}
UserNameIn == "U"

\* the UNIQUE constraint left out
RegTakenNever(vr, e, m) == FALSE

\* UNIQUE(event_id, email) of table event_registrations
RegTaken(vr, e, m) ==
  \E i \in DOMAIN vr : vr[i].event_id = e /\ vr[i].email = m

\* INSERT INTO event_registrations (event_id, user_name, email)
new_registration(e, u, m, now) ==
  [event_id |-> e, user_name |-> u, email |-> m, created_at |-> now]

\* An open transaction has deleted event e: a row that references it waits
EventLocked(p, e) == \E q \in Procs \ {p} : e \in tx[q].edel

\* Outcome of EventRegistrationsDB.create_registration's INSERT on the
\* committed tables: the table is there, the event exists, the pair is new
registration_insert(vs, ve, vr, e, m) ==
  IF "event_registrations" \notin vs THEN "no_table"
  ELSE IF e \notin DOMAIN ve THEN "no_event"
  ELSE IF RegTaken(vr, e, m) THEN "duplicate"
  ELSE "stored"

main_create_registration_call(p) ==
  /\ Free(p)
  /\ reg_seq + Cardinality({q \in Procs \ {p} : req[q].op = "db_create_registration"})
        < MaxRegs
  /\ \E e \in EventIdIn, m \in EmailIn :
       req' = [req EXCEPT ![p] =
                 [IdleReq EXCEPT !.op = "db_create_registration", !.pc = "db_insert",
                                 !.id = e, !.author = UserNameIn, !.name = m]]
  /\ UNCHANGED <<tables, seqs, clock, tx, infra>>

\* EventRegistrationsDB.create_registration and main.create_registration's
\* answer: the row execute_insert returned, or, the INSERT having raised
\* and None being returned, 400.  pre keeps what the INSERT met.
EventRegistrationsDB_create_registration(p) ==
  LET r == req[p]
      new == reg_seq + 1
      met == registration_insert(schema, events, registrations, r.id, r.name)
      row == new_registration(r.id, r.author, r.name, clock)
  IN
  /\ r.op = "db_create_registration" /\ r.pc = "db_insert"
  /\ ~EventLocked(p, r.id)
  /\ reg_seq' = IF met = "no_table" THEN reg_seq ELSE new
  /\ IF met = "stored"
     THEN /\ registrations' = Put(registrations, new, row)
          /\ req' = [req EXCEPT ![p].pc = "respond", ![p].pre = met,
                 ![p].res = Resp(200, "", << [id |-> new] @@ row >>)]
     ELSE /\ req' = [req EXCEPT ![p].pc = "respond", ![p].pre = met,
                 ![p].res = Resp(400, "Failed to create registration", <<>>)]
          /\ UNCHANGED registrations
  /\ UNCHANGED <<tables, seqs, clock, tx, schema, pools, process>>

\* routes.register_user
register_user_call(p) ==
  /\ Free(p)
  /\ \E e \in EventIdIn :
       req' = [req EXCEPT ![p] =
                 [IdleReq EXCEPT !.op = "register_user", !.pc = "insert",
                                 !.id = e, !.loc = 1]]
  /\ get_db_getconn(p)
  /\ UNCHANGED <<tables, seqs, clock, tx, regs, schema, used, exec, process>>

\* service.register_user: INSERT INTO event_registrations (event_id, user_id)
\* ... RETURNING id, event_id, user_id, registered_at, status.  The table
\* _ensure_tables_exist creates has none of user_id, registered_at, status,
\* and its user_name and email are NOT NULL: the statement raises whatever
\* the event, and the except answers 500.
register_user(p) ==
  LET r == req[p] IN
  /\ r.op = "register_user" /\ r.pc = "insert"
  /\ tx' = [tx EXCEPT ![p].aborted = TRUE]
  /\ req' = [req EXCEPT ![p].pc = "finish", ![p].pre = "undefined_column",
            ![p].res = Resp(500, "Failed to register user for event", <<>>)]
  /\ UNCHANGED <<tables, seqs, clock, infra>>

\* ORDER BY er.created_at: every order of the rows ids of vr that agrees
\* with ascending created_at
OrderRegs(vr, ids) ==
  { s \in [1..Cardinality(ids) -> ids] :
      /\ \A i, j \in 1..Cardinality(ids) : i # j => s[i] # s[j]
      /\ \A i, j \in 1..Cardinality(ids) :
           i < j => vr[s[i]].created_at <= vr[s[j]].created_at }

\* WHERE and JOIN of get_registrations_by_event
RegistrationsOf(ve, vr, e) == {i \in DOMAIN vr : vr[i].event_id = e /\ e \in DOMAIN ve}

\* main.get_event_registrations
main_get_event_registrations_call(p) ==
  /\ Free(p)
  /\ \E e \in EventIdIn :
       req' = [req EXCEPT ![p] =
                 [IdleReq EXCEPT !.op = "db_get_registrations", !.pc = "db_select",
                                 !.id = e]]
  /\ UNCHANGED <<tables, seqs, clock, tx, infra>>

\* EventRegistrationsDB.get_registrations_by_event and the endpoint's
\* answer: the rows of execute_query, or [] when the statement raised
EventRegistrationsDB_get_registrations_by_event(p) ==
  LET r == req[p]
      ids == RegistrationsOf(events, registrations, r.id)
  IN
  /\ r.op = "db_get_registrations" /\ r.pc = "db_select"
  /\ IF "event_registrations" \in schema
     THEN \E s \in OrderRegs(registrations, ids) :
            req' = [req EXCEPT ![p].pc = "respond",
                      ![p].res = Resp(200, "",
                         [k \in 1..Len(s) |->
                            [id |-> s[k], event_title |-> events[r.id].title]
                              @@ registrations[s[k]]])]
     ELSE req' = [req EXCEPT ![p].pc = "respond", ![p].pre = "no_table",
                    ![p].res = Resp(200, "", <<>>)]
  /\ UNCHANGED <<tables, seqs, clock, tx, infra>>

\* routes.list_registrations
list_registrations_call(p) ==
  /\ Free(p)
  /\ \E e \in EventIdIn :
       req' = [req EXCEPT ![p] =
                 [IdleReq EXCEPT !.op = "list_registrations", !.pc = "select",
                                 !.id = e]]
  /\ get_db_getconn(p)
  /\ UNCHANGED <<tables, seqs, clock, tx, regs, schema, used, exec, process>>

\* service.list_registrations: SELECT id, event_id, user_id, registered_at,
\* status FROM event_registrations WHERE event_id = %s, with no ORDER BY.
\* The table _ensure_tables_exist creates has none of user_id,
\* registered_at, status: the statement raises, and the except answers 500.
list_registrations(p) ==
  LET r == req[p] IN
  /\ r.op = "list_registrations" /\ r.pc = "select"
  /\ tx' = [tx EXCEPT ![p].aborted = TRUE]
  /\ req' = [req EXCEPT ![p].pc = "finish", ![p].pre = "undefined_column",
            ![p].res = Resp(500, "Failed to fetch registrations", <<>>)]
  /\ UNCHANGED <<tables, seqs, clock, infra>>

\* Registrations: events, and the two ways to register for them
NextRegistrations ==
  \/ \E p \in Procs :
       \/ main_create_event_call(p, {1})
       \/ EventsDB_create_event(p)
       \/ main_create_registration_call(p)
       \/ EventRegistrationsDB_create_registration(p)
       \/ register_user_call(p)
       \/ register_user(p)
       \/ get_db_commit(p)
       \/ respond(p)

SpecRegistrations == Init /\ [][NextRegistrations]_vars

\* ===================== admin: list_pending_blogs ========================
\* The orders ORDER BY b.created_at ASC may return the rows ids in
OrderAsc(vb, ids) ==
  { s \in [1..Cardinality(ids) -> ids] :
      /\ \A i, j \in 1..Cardinality(ids) : i # j => s[i] # s[j]
      /\ \A i, j \in 1..Cardinality(ids) :
           i < j => vb[s[i]].created_at <= vb[s[j]].created_at }

\* FROM blogs b JOIN domains d ON b.domain_id = d.id WHERE b.status = 'pending'
list_pending_blogs_where(vb, vd, i) ==
  /\ vb[i].domain_id \in DOMAIN vd
  /\ vb[i].status = "pending"

\* routes.get_pending_blogs
list_pending_blogs_call(p) ==
  /\ Free(p)
  /\ req' = [req EXCEPT ![p] =
               [IdleReq EXCEPT !.op = "list_pending_blogs", !.pc = "select"]]
  /\ get_db_getconn(p)
  /\ UNCHANGED <<tables, seqs, clock, tx, regs, schema, used, exec, process>>

list_pending_blogs(p) ==
  LET r == req[p]
      vb == VBlogs(p)
      vd == VDomains(p)
      ids == {i \in DOMAIN vb : list_pending_blogs_where(vb, vd, i)}
  IN
  /\ r.op = "list_pending_blogs" /\ r.pc = "select"
  /\ \E s \in OrderAsc(vb, ids) :
       req' = [req EXCEPT ![p].pc = "finish",
                 ![p].res = Resp(200, "",
                    [k \in 1..Len(s) |-> BlogOut(s[k], vb[s[k]], vd[vb[s[k]].domain_id].name)])]
  /\ UNCHANGED <<tables, seqs, clock, tx, infra>>

\* The blogs the two listings hold, called with no filter on tables vb, vd
PendingListing(vb, vd) == {i \in DOMAIN vb : list_pending_blogs_where(vb, vd, i)}
PublicListing(vb, vd) == {i \in DOMAIN vb : list_blogs_where(vb, vd, i, None, <<>>)}

\* Lifecycle: submission, moderation, the two listings, domain deletion
NextLifecycle ==
  \/ Tick
  \/ \E p \in Procs :
       \/ create_blog_call(p, DomainNames, MaxBlogs, {TitleIn})
       \/ get_or_create_domain_select(p)
       \/ get_or_create_domain_insert(p)
       \/ create_blog(p)
       \/ approve_call(p, BlogIds)
       \/ approve_blog(p)
       \/ reject_call(p, BlogIds)
       \/ reject_blog(p)
       \/ list_pending_blogs_call(p)
       \/ list_pending_blogs(p)
       \/ list_blogs_call(p)
       \/ list_blogs(p)
       \/ delete_domain_call(p, DomainIdIn)
       \/ delete_domain_count(p)
       \/ delete_domain(p)
       \/ get_db_commit(p)

SpecLifecycle == Init /\ [][NextLifecycle]_vars

\* Registrations made at different times, and the two ways to list them
NextRegListing ==
  \/ Tick
  \/ \E p \in Procs :
       \/ main_create_event_call(p, {1})
       \/ EventsDB_create_event(p)
       \/ main_create_registration_call(p)
       \/ EventRegistrationsDB_create_registration(p)
       \/ main_get_event_registrations_call(p)
       \/ EventRegistrationsDB_get_registrations_by_event(p)
       \/ list_registrations_call(p)
       \/ list_registrations(p)
       \/ get_db_commit(p)
       \/ respond(p)

SpecRegListing == Init /\ [][NextRegListing]_vars

\* Submission by either program, of titles the table takes and of one it
\* does not, while domains are deleted
NextSubmit ==
  \/ \E p \in Procs :
       \/ create_blog_call(p, DomainNames, MaxListed, {TitleIn, LongTitle})
       \/ get_or_create_domain_select(p)
       \/ get_or_create_domain_insert(p)
       \/ create_blog(p)
       \/ get_db_commit(p)
       \/ main_create_blog_call(p, DomainNames, MaxListed, {TitleIn, LongTitle})
       \/ BlogsDB_get_or_create_domain_select(p)
       \/ BlogsDB_get_or_create_domain_insert(p)
       \/ BlogsDB_create_blog_insert(p)
       \/ BlogsDB_create_blog_select(p)
       \/ delete_domain_call(p, DomainIdIn)
       \/ delete_domain_count(p)
       \/ delete_domain(p)
       \/ respond(p)

SpecSubmit == Init /\ [][NextSubmit]_vars

\* Partial updates of one pending blog by concurrent clients of main.py
NextUpdates ==
  \/ Tick
  \/ \E p \in Procs :
       \/ main_create_blog_call(p, DomainNames, MaxBlogs, {TitleIn})
       \/ BlogsDB_create_blog_insert(p)
       \/ BlogsDB_create_blog_select(p)
       \/ main_update_blog_call(p, BlogIds, {TitlePatch, ContentPatch})
       \/ main_update_blog_get(p)
       \/ BlogsDB_get_or_create_domain_select(p)
       \/ BlogsDB_get_or_create_domain_insert(p)
       \/ BlogsDB_update_blog(p)
       \/ BlogsDB_update_blog_select(p)
       \/ respond(p)

SpecUpdates == Init /\ [][NextUpdates]_vars

\* Ordering: blogs submitted at different times, moderated, and listed
NextOrdering ==
  \/ Tick
  \/ \E p \in Procs :
       \/ create_blog_call(p, DomainNames, MaxListed, {TitleIn})
       \/ get_or_create_domain_select(p)
       \/ get_or_create_domain_insert(p)
       \/ create_blog(p)
       \/ approve_call(p, ListedIds)
       \/ approve_blog(p)
       \/ list_pending_blogs_call(p)
       \/ list_pending_blogs(p)
       \/ list_blogs_call(p)
       \/ list_blogs(p)
       \/ get_db_commit(p)

SpecOrdering == Init /\ [][NextOrdering]_vars

\* ===================== DatabaseManager: get_connection, _execute ========
\* The executor calls a run makes
MaxCalls == 3

\* SimpleConnectionPool.getconn hands out a connection unless maxconn of
\* them are in use
getconn_always(u) == TRUE
getconn_ok(u) == Cardinality(u) < DB_POOL_MAX

\* finally: if conn: self.pool.putconn(conn)
putconn_never(u, p, conn) == u
putconn(u, p, conn) == IF conn THEN u \ {p} ELSE u

\* except: if conn: conn.rollback() -- what is left of the transaction
rollback_kept(t) == t
rollback(t) == NoTx

\* Query texts as passed to the executor, token by token
Whitespace == {" ", "\n"}
get_blogs_query == <<"\n", " ", "SELECT", " ", "b.*", " ", "FROM", " ", "blogs">>
create_domain_query == <<"INSERT", " ", "INTO", " ", "domains">>
query_of(op) == IF op = "execute_query" THEN get_blogs_query ELSE create_domain_query

\* str.strip().split(): the tokens that are not whitespace; str.upper()
IsWord(w) == w \notin Whitespace
strip_split(q) == SelectSeq(q, IsWord)
upper(w) ==
  CASE w = "select" -> "SELECT"
    [] w = "insert" -> "INSERT"
    [] OTHER -> w

\* _track_query: query_type = query.strip().split()[0].upper()
query_type(q) == upper(strip_split(q)[1])

\* Counter.labels(k).inc() and Histogram.labels(k).observe(d), n times
inc(m, k) == [m EXCEPT ![k] = @ + 1]
observe(m, k, n) == [m EXCEPT ![k] = @ + n]

\* The label the endpoint itself counts and observes under
endpoint_query_type(op) == IF op = "execute_query" THEN "SELECT" ELSE "INSERT"

\* The executor calls made so far
TotalCalls == executor_calls["SELECT"] + executor_calls["INSERT"]

\* main.get_blogs -> BlogsDB.get_blogs -> db_manager.execute_query ->
\* _track_query, which counts the call before it runs the statement
execute_query_call(p) ==
  /\ Free(p)
  /\ TotalCalls < MaxCalls
  /\ db_query_total' = inc(db_query_total, query_type(get_blogs_query))
  /\ executor_calls' = inc(executor_calls, query_type(get_blogs_query))
  /\ UNCHANGED db_query_duration_seconds
  /\ req' = [req EXCEPT ![p] =
               [IdleReq EXCEPT !.op = "execute_query", !.pc = "getconn",
                               !.name = "", !.search = <<>>]]
  /\ exec' = [exec EXCEPT ![p] = NoExec]
  /\ UNCHANGED <<tables, seqs, clock, tx, regs, schema, used, app_used, background>>

\* main.create_domain -> DomainsDB.create_domain -> db_manager.execute_insert
\* -> _track_query
execute_insert_call(p) ==
  /\ Free(p)
  /\ TotalCalls < MaxCalls
  /\ db_query_total' = inc(db_query_total, query_type(create_domain_query))
  /\ executor_calls' = inc(executor_calls, query_type(create_domain_query))
  /\ UNCHANGED db_query_duration_seconds
  /\ domain_seq + Cardinality({q \in Procs \ {p} : req[q].op = "execute_insert"})
        < MaxDomainSeq
  /\ \E n \in DomainNames :
       req' = [req EXCEPT ![p] =
                 [IdleReq EXCEPT !.op = "execute_insert", !.pc = "getconn", !.name = n]]
  /\ exec' = [exec EXCEPT ![p] = NoExec]
  /\ UNCHANGED <<tables, seqs, clock, tx, regs, schema, used, app_used, background>>

\* get_connection: conn = self.pool.getconn().  It raises PoolError when the
\* pool is exhausted, and the error of connecting when the pool has to open
\* a connection and the store cannot be reached; conn is then still None.
get_connection_getconn(p) ==
  LET r == req[p] IN
  /\ r.op \in {"execute_query", "execute_insert"} /\ r.pc = "getconn"
  /\ IF getconn_ok(used)
     THEN \/ /\ used' = used \cup {p}
             /\ db_active_connections' = Cardinality(used')
             /\ exec' = [exec EXCEPT ![p].conn = TRUE]
             /\ req' = [req EXCEPT ![p].pc = "execute"]
          \/ /\ exec' = [exec EXCEPT ![p].err = "store_failure"]
             /\ req' = [req EXCEPT ![p].pc = "except"]
             /\ UNCHANGED <<used, db_active_connections>>
     ELSE /\ exec' = [exec EXCEPT ![p].err = "pool_exhausted"]
          /\ req' = [req EXCEPT ![p].pc = "except"]
          /\ UNCHANGED <<used, db_active_connections>>
  /\ UNCHANGED <<tables, seqs, clock, tx, regs, schema, app_used, metrics,
                 lifecycle, tasks, iterations>>

\* _execute: cursor.execute(query, params) and the fetch, inside the
\* transaction of the connection.  The statement raises on a violated
\* constraint, and whenever the store fails; the transaction is then failed
\* until it is rolled back.
execute_statement(p) ==
  LET r == req[p]
      ins == insert_domain(domains, domain_seq, r.name)
      ids == {i \in DOMAIN blogs : get_blogs_where(blogs, domains, i, r.name, r.search)}
  IN
  /\ r.op \in {"execute_query", "execute_insert"} /\ r.pc = "execute"
  /\ \/ /\ r.op = "execute_query"
        /\ \E s \in OrderDesc(blogs, ids) :
             exec' = [exec EXCEPT ![p].ran = @ + 1,
                       ![p].out = [k \in 1..Len(s) |->
                          BlogOut(s[k], blogs[s[k]], domains[blogs[s[k]].domain_id].name)]]
        /\ req' = [req EXCEPT ![p].pc = "commit"]
        /\ UNCHANGED <<tx, domain_seq>>
     \/ /\ r.op = "execute_insert"
        /\ ~DomainNameBusy(p, r.name)
        /\ domain_seq' = ins.seq
        /\ IF ins.ok
           THEN /\ tx' = [tx EXCEPT ![p].dput = Put(@, ins.id, [name |-> r.name])]
                /\ exec' = [exec EXCEPT ![p].ran = @ + 1,
                              ![p].out = << [id |-> ins.id, name |-> r.name] >>]
                /\ req' = [req EXCEPT ![p].pc = "commit"]
           ELSE /\ exec' = [exec EXCEPT ![p].ran = @ + 1, ![p].err = "unique_violation"]
                /\ req' = [req EXCEPT ![p].pc = "except"]
                /\ tx' = [tx EXCEPT ![p].aborted = TRUE]
     \/ /\ exec' = [exec EXCEPT ![p].ran = @ + 1, ![p].err = "store_failure"]
        /\ req' = [req EXCEPT ![p].pc = "except"]
        /\ tx' = [tx EXCEPT ![p].aborted = TRUE]
        /\ UNCHANGED domain_seq
  /\ UNCHANGED <<tables, blog_seq, event_seq, clock, regs, schema, used, app_used, process>>

\* get_connection after the yield: conn.commit(), which may raise
get_connection_commit(p) ==
  LET r == req[p] IN
  /\ r.op \in {"execute_query", "execute_insert"} /\ r.pc = "commit"
  /\ \/ /\ domains' = VDomains(p)
        /\ tx' = [tx EXCEPT ![p] = NoTx]
        /\ req' = [req EXCEPT ![p].pc = "finally"]
        /\ UNCHANGED exec
     \/ /\ exec' = [exec EXCEPT ![p].err = "commit_failure"]
        /\ req' = [req EXCEPT ![p].pc = "except"]
        /\ UNCHANGED <<domains, tx>>
  /\ UNCHANGED <<blogs, events, seqs, clock, regs, schema, used, app_used, process>>

\* get_connection: except Exception: if conn: conn.rollback(); raise e.
\* A rollback that itself raises has lost the connection, and the store has
\* dropped the transaction with it; the finally clause runs either way.
get_connection_except(p) ==
  LET r == req[p] IN
  /\ r.op \in {"execute_query", "execute_insert"} /\ r.pc = "except"
  /\ IF exec[p].conn
     THEN /\ tx' = [tx EXCEPT ![p] = rollback(@)]
          /\ exec' = [exec EXCEPT ![p].rolled = TRUE]
     ELSE UNCHANGED <<tx, exec>>
  /\ req' = [req EXCEPT ![p].pc = "finally"]
  /\ UNCHANGED <<tables, seqs, clock, regs, schema, used, app_used, process>>

\* What the endpoint answers for the result of the repository function:
\* BlogsDB.get_blogs returns [] and DomainsDB.create_domain None when the
\* call raised
repository_route(op, err, out) ==
  IF op = "execute_query"
  THEN IF err = "none" THEN Resp(200, "", out) ELSE Resp(200, "", <<>>)
  ELSE IF err = "none" THEN Resp(200, "", out)
       ELSE Resp(400, "Failed to create domain", <<>>)

\* get_connection: finally: if conn: self.pool.putconn(conn); the call then
\* returns to, or raises into, _track_query, which observes the duration
\* only when func returned; the repository function turns what was raised
\* into its value, and the endpoint observes and counts once under its own
\* label before it answers.  pre keeps what was raised.
get_connection_finally(p) ==
  LET r == req[p]
      returned == IF exec[p].err = "none" THEN 1 ELSE 0
  IN
  /\ r.op \in {"execute_query", "execute_insert"} /\ r.pc = "finally"
  /\ db_query_duration_seconds' =
       observe(observe(db_query_duration_seconds, query_type(query_of(r.op)), returned),
               endpoint_query_type(r.op), 1)
  /\ db_query_total' = inc(db_query_total, endpoint_query_type(r.op))
  /\ UNCHANGED executor_calls
  /\ used' = putconn(used, p, exec[p].conn)
  /\ db_active_connections' =
       IF exec[p].conn THEN Cardinality(used') ELSE db_active_connections
  /\ exec' = [exec EXCEPT ![p].conn = FALSE]
  /\ req' = [req EXCEPT ![p].pc = "respond", ![p].pre = exec[p].err,
                        ![p].res = repository_route(r.op, exec[p].err, exec[p].out)]
  /\ UNCHANGED <<tables, seqs, clock, tx, regs, schema, app_used,
                 lifecycle, tasks, iterations>>

\* get_db after the yield when conn.commit() raises: rollback, close, putconn
get_db_commit_raises(p) ==
  /\ req[p].pc = "finish"
  /\ tx' = [tx EXCEPT ![p] = rollback(@)]
  /\ req' = [req EXCEPT ![p] = IdleReq]
  /\ app_used' = app_used \ {p}
  /\ UNCHANGED <<tables, seqs, clock, regs, schema, used, exec, process>>

\* Pool: executor calls of main.py's endpoints, and requests of the app
NextPool ==
  \/ \E p \in Procs :
       \/ execute_query_call(p)
       \/ execute_insert_call(p)
       \/ get_connection_getconn(p)
       \/ execute_statement(p)
       \/ get_connection_commit(p)
       \/ get_connection_except(p)
       \/ get_connection_finally(p)
       \/ respond(p)
       \/ create_blog_call(p, DomainNames, MaxBlogs, {TitleIn})
       \/ get_or_create_domain_select(p)
       \/ get_or_create_domain_insert(p)
       \/ create_blog(p)
       \/ get_db_commit(p)
       \/ get_db_commit_raises(p)

SpecPool == Init /\ [][NextPool]_vars

\* ===================== main.py: startup, background tasks, shutdown =====
\* The sampling iterations a task makes in a run
MaxIterations == 2

\* startup_event: asyncio.create_task(...) twice, the tasks not kept
startup_event ==
  /\ lifecycle = "created"
  /\ lifecycle' = "running"
  /\ tasks' = [t \in TaskNames |-> "pending"]
  /\ UNCHANGED <<tables, seqs, clock, req, tx, regs, schema, pools, metrics,
                 db_active_connections, iterations>>

\* One turn of update_db_metrics_task's loop, up to its await asyncio.sleep(5):
\* db_active_connections.set(AdminDB.get_active_db_connections()), which is
\* len(db_manager.pool._used)
update_db_metrics_task ==
  /\ tasks["update_db_metrics_task"] = "pending"
  /\ iterations["update_db_metrics_task"] < MaxIterations
  /\ db_active_connections' = Cardinality(used)
  /\ iterations' = [iterations EXCEPT !["update_db_metrics_task"] = @ + 1]
  /\ UNCHANGED <<tables, seqs, clock, req, tx, regs, schema, pools, metrics,
                 lifecycle, tasks>>

\* One turn of update_system_metrics_task's loop: the gauges of psutil
update_system_metrics_task ==
  /\ tasks["update_system_metrics_task"] = "pending"
  /\ iterations["update_system_metrics_task"] < MaxIterations
  /\ iterations' = [iterations EXCEPT !["update_system_metrics_task"] = @ + 1]
  /\ UNCHANGED <<tables, seqs, clock, req, tx, regs, schema, pools, metrics,
                 db_active_connections, lifecycle, tasks>>

\* shutdown_event: logger.info(...), and nothing else
shutdown_event ==
  /\ lifecycle = "running"
  /\ lifecycle' = "shutdown"
  /\ UNCHANGED <<tables, seqs, clock, req, tx, regs, schema, pools, metrics,
                 db_active_connections, tasks, iterations>>

\* uvicorn.run returns: the event loop is closed, which cancels the tasks
\* still pending on it
run_returns ==
  /\ lifecycle = "shutdown"
  /\ lifecycle' = "closed"
  /\ tasks' = [t \in TaskNames |-> "cancelled"]
  /\ UNCHANGED <<tables, seqs, clock, req, tx, regs, schema, pools, metrics,
                 db_active_connections, iterations>>

\* The server from startup to exit, serving executor calls while it runs
NextBackground ==
  \/ startup_event
  \/ update_db_metrics_task
  \/ update_system_metrics_task
  \/ shutdown_event
  \/ run_returns
  \/ \E p \in Procs :
       \/ lifecycle = "running" /\ execute_query_call(p)
       \/ get_connection_getconn(p)
       \/ execute_statement(p)
       \/ get_connection_commit(p)
       \/ get_connection_except(p)
       \/ get_connection_finally(p)
       \/ respond(p)

SpecBackground == Init /\ [][NextBackground]_vars

\* ===================== DatabaseManager: tables and health ===============
\* The rows of default_domains in a table whose sequence stands at base
seeded(base) ==
  [i \in (base + 1)..(base + Len(default_domains)) |-> [name |-> default_domains[i - base]]]

\* if domain_count == 0, with the condition left out
domain_count_any(count) == TRUE
\* if domain_count == 0
domain_count_zero(count) == count = 0

\* _ensure_tables_exist on a store with tables vs, domains rows vd and
\* domains sequence seq: four CREATE TABLE IF NOT EXISTS, then the default
\* domains if the table has no row.  A table created now is empty and its
\* sequence new.
ensure_tables_exist(vs, vd, seq) ==
  LET had == "domains" \in vs
      domain_count == IF had THEN Cardinality(DOMAIN vd) ELSE 0
      base == IF had THEN seq ELSE 0
  IN IF domain_count_zero(domain_count)
     THEN [schema |-> vs \cup required_tables, domains |-> seeded(base),
           seq |-> base + Len(default_domains)]
     ELSE [schema |-> vs \cup required_tables, domains |-> vd, seq |-> seq]

\* The store the manager was constructed on had the default domains, or
\* only one of them left
InitSchema ==
  /\ domains \in { seeded(0), [i \in {1} |-> [name |-> default_domains[1]]] }
  /\ blogs = EmptyFn
  /\ events = EmptyFn
  /\ domain_seq = Len(default_domains)
  /\ blog_seq = 0
  /\ event_seq = 0
  /\ clock = 0
  /\ req = [p \in Procs |-> IdleReq]
  /\ tx = [p \in Procs |-> NoTx]
  /\ registrations = EmptyFn
  /\ reg_seq = 0
  /\ schema = required_tables
  /\ used = {}
  /\ app_used = {}
  /\ exec = [p \in Procs |-> NoExec]
  /\ db_query_total = NoSamples
  /\ db_query_duration_seconds = NoSamples
  /\ executor_calls = NoSamples
  /\ db_active_connections = 0
  /\ lifecycle = "created"
  /\ tasks = [t \in TaskNames |-> "absent"]
  /\ iterations = [t \in TaskNames |-> 0]

\* Outside the program: the table nothing references is dropped
drop_event_registrations ==
  /\ "event_registrations" \in schema
  /\ schema' = schema \ {"event_registrations"}
  /\ registrations' = EmptyFn
  /\ reg_seq' = 0
  /\ UNCHANGED <<tables, seqs, clock, req, tx, pools, process>>

\* repair_database: _ensure_tables_exist in one transaction, then True
repair_database(p) ==
  LET e == ensure_tables_exist(schema, domains, domain_seq) IN
  /\ Free(p)
  /\ schema' = e.schema
  /\ domains' = e.domains
  /\ domain_seq' = e.seq
  /\ req' = [req EXCEPT ![p] =
               [IdleReq EXCEPT !.op = "repair_database", !.pc = "respond",
                               !.res = Resp(200, "", << TRUE >>)]]
  /\ UNCHANGED <<blogs, events, blog_seq, event_seq, clock, tx, regs, pools, process>>

\* SELECT EXISTS (SELECT FROM information_schema.tables ...): the row a
\* RealDictCursor fetches, keyed by the name of its column
select_exists(vs, t) == [exists |-> t \in vs]
\* row[0]: a row keyed by column names has no key 0 (written "0"); <<>> is
\* the KeyError
subscript_0(row) == IF "0" \in DOMAIN row THEN << row["0"] >> ELSE <<>>

\* SELECT COUNT(*) as count FROM {table}
count_rows(t) ==
  CASE t = "domains" -> Cardinality(DOMAIN domains)
    [] t = "blogs" -> Cardinality(DOMAIN blogs)
    [] t = "events" -> Cardinality(DOMAIN events)
    [] OTHER -> Cardinality(DOMAIN registrations)

\* check_database_health: the dictionary it returns
check_database_health_result(vs) ==
  LET existing_tables ==
        {t \in required_tables :
           subscript_0(select_exists(vs, t)) # <<>> /\ subscript_0(select_exists(vs, t))[1]}
  IN IF \E t \in required_tables : subscript_0(select_exists(vs, t)) = <<>>
     THEN [status |-> "error", existing_tables |-> {}, table_counts |-> EmptyFn]
     ELSE [status |-> IF Cardinality(existing_tables) = Cardinality(required_tables)
                      THEN "healthy" ELSE "missing_tables",
           existing_tables |-> existing_tables,
           table_counts |-> [t \in existing_tables |-> count_rows(t)]]

\* pre keeps whether every required table existed when the check ran
check_database_health(p) ==
  /\ Free(p)
  /\ req' = [req EXCEPT ![p] =
               [IdleReq EXCEPT !.op = "check_database_health", !.pc = "respond",
                               !.pre = IF schema = required_tables THEN "all" ELSE "some",
                               !.loc = Cardinality(DOMAIN domains),
                               !.res = Resp(200, "", << check_database_health_result(schema) >>)]]
  /\ UNCHANGED <<tables, seqs, clock, tx, infra>>

\* Schema: the store's tables dropped and repaired under requests
NextSchema ==
  \/ drop_event_registrations
  \/ \E p \in Procs :
       \/ repair_database(p)
       \/ check_database_health(p)
       \/ main_create_event_call(p, {1})
       \/ EventsDB_create_event(p)
       \/ main_create_registration_call(p)
       \/ EventRegistrationsDB_create_registration(p)
       \/ delete_domain_call(p, DomainIdIn)
       \/ delete_domain_count(p)
       \/ delete_domain(p)
       \/ get_db_commit(p)
       \/ respond(p)

SpecSchema == InitSchema /\ [][NextSchema]_vars

\* ===================== main.py: /admin/health ===========================
\* The tables get_dashboard_stats counts, in its order
dashboard_tables == <<"blogs", "events", "domains", "event_registrations">>
dashboard_query == <<"SELECT", " ", "COUNT(*)", " ", "as", " ", "count">>

\* SELECT COUNT(*) FROM <table>
dashboard_count(t) ==
  CASE t = "blogs" -> Cardinality(DOMAIN blogs)
    [] t = "events" -> Cardinality(DOMAIN events)
    [] t = "domains" -> Cardinality(DOMAIN domains)
    [] OTHER -> Cardinality(DOMAIN registrations)

\* What a call of get_dashboard_stats gives its caller: except Exception:
\* return {} -- nothing is raised, whatever the statements met
get_dashboard_stats_result(err, counts) ==
  [raised |-> FALSE, stats |-> IF err = "none" THEN counts ELSE <<>>]

\* health_check: db_status by whether the call raised, and the answer
health_check_route(result) ==
  IF result.raised
  THEN Resp(200, "", << [status |-> "degraded", database |-> "unhealthy"] >>)
  ELSE Resp(200, "", << [status |-> "healthy", database |-> "healthy"] >>)

\* main.health_check -> AdminDB.get_dashboard_stats
health_check_call(p) ==
  /\ Free(p)
  /\ TotalCalls <= MaxCalls
  /\ req' = [req EXCEPT ![p] =
               [IdleReq EXCEPT !.op = "health_check", !.pc = "count", !.loc = 1,
                               !.pre = "none"]]
  /\ exec' = [exec EXCEPT ![p] = NoExec]
  /\ UNCHANGED <<tables, seqs, clock, tx, regs, schema, used, app_used, process>>

\* get_dashboard_stats, one execute_single: _track_query counts the call,
\* _execute takes a connection, runs the count, commits and returns the
\* connection, and _track_query observes the duration if nothing was
\* raised.  The first statement that raises ends the function.
AdminDB_get_dashboard_stats(p) ==
  LET r == req[p]
      t == dashboard_tables[r.loc]
      kind == query_type(dashboard_query)
      raises(e, conn) ==
        /\ req' = [req EXCEPT ![p].pc = "answer", ![p].pre = e]
        /\ exec' = [exec EXCEPT ![p].err = e, ![p].out = <<>>]
        /\ db_query_duration_seconds' = db_query_duration_seconds
        /\ db_active_connections' =
             IF conn THEN Cardinality(used) ELSE db_active_connections
  IN
  /\ r.op = "health_check" /\ r.pc = "count"
  /\ db_query_total' = inc(db_query_total, kind)
  /\ executor_calls' = inc(executor_calls, kind)
  /\ IF ~getconn_ok(used)
     THEN raises("pool_exhausted", FALSE)
     ELSE \/ raises("store_failure", FALSE)
          \/ raises("store_failure", TRUE)
          \/ /\ t \notin schema
             /\ raises("no_table", TRUE)
          \/ /\ t \in schema
             /\ exec' = [exec EXCEPT ![p].ran = @ + 1,
                           ![p].out = Append(@, dashboard_count(t))]
             /\ req' = [req EXCEPT ![p].loc = @ + 1,
                           ![p].pc = IF r.loc = Len(dashboard_tables)
                                     THEN "answer" ELSE "count"]
             /\ db_query_duration_seconds' = observe(db_query_duration_seconds, kind, 1)
             /\ db_active_connections' = Cardinality(used)
  /\ UNCHANGED <<tables, seqs, clock, tx, regs, schema, used, app_used,
                 lifecycle, tasks, iterations>>

\* health_check: the answer
health_check(p) ==
  LET r == req[p] IN
  /\ r.op = "health_check" /\ r.pc = "answer"
  /\ req' = [req EXCEPT ![p].pc = "respond",
        ![p].res = health_check_route(get_dashboard_stats_result(r.pre, exec[p].out))]
  /\ UNCHANGED <<tables, seqs, clock, tx, infra>>

\* Health checks while tables go missing and the pool is in use
NextHealth ==
  \/ drop_event_registrations
  \/ \E p \in Procs :
       \/ health_check_call(p)
       \/ AdminDB_get_dashboard_stats(p)
       \/ health_check(p)
       \/ repair_database(p)
       \/ execute_query_call(p)
       \/ get_connection_getconn(p)
       \/ execute_statement(p)
       \/ get_connection_commit(p)
       \/ get_connection_except(p)
       \/ get_connection_finally(p)
       \/ respond(p)

SpecHealth == InitSchema /\ [][NextHealth]_vars

\* ================================ claims ================================
\* Client p takes the step
Acts(p) == req'[p] # req[p]

C2_NonPendingReturnsNone ==
  \A p \in Procs :
     ( /\ req[p].op \in {"approve_blog", "reject_blog"}
       /\ req[p].pc = "finish"
       /\ req[p].pre \in {"approved", "rejected"}
       /\ req[p].res.code # 400 )
     => (req[p].res.body = <<>> /\ req[p].res.code = 404)

\* C3: update_blog (the service's, and BlogsDB's behind PUT /blogs/{id}) on a
\* blog that was not pending when the call was made changes no column of the
\* blog at any step of the request, writes nothing to it in its transaction,
\* and returns no blog, which its route answers with status 400.
C3_NonPendingUpdateIsNoOp ==
  [][\A p \in Procs :
       ( /\ req[p].op \in {"update_blog", "db_update_blog"}
         /\ req[p].pre \in {"approved", "rejected"}
         /\ Acts(p) )
       => /\ req[p].id \in DOMAIN blogs =>
               (req[p].id \in DOMAIN blogs' /\ blogs'[req[p].id] = blogs[req[p].id])
          /\ req[p].id \notin DOMAIN tx'[p].bput
          /\ req[p].id \notin tx'[p].bdel
          /\ (req[p].pc \notin {"finish", "respond"}
               /\ req'[p].pc \in {"finish", "respond"}) =>
               (req'[p].res.body = <<>> /\ req'[p].res.code = 400)]_vars

\* An update with text fields set has been answered for an approved blog
C3_Witness ==
  \E p \in Procs :
     /\ req[p].op = "update_blog"
     /\ req[p].pre = "approved"
     /\ req[p].pc = "finish"
     /\ TruthySeq(req[p].title)
     /\ req[p].res.code = 400
     /\ req[p].id \in DOMAIN blogs /\ blogs[req[p].id].status = "approved"

\* C4: every row a public listing returns (service.list_blogs, and the rows
\* of BlogsDB.get_blogs behind GET /blogs/) has status approved.
C4_ListingOnlyApproved ==
  \A p \in Procs :
     /\ (req[p].op = "list_blogs" /\ req[p].pc = "finish")
          => \A k \in 1..Len(req[p].res.body) : req[p].res.body[k].status = "approved"
     /\ (req[p].op = "db_get_blogs" /\ req[p].pc = "respond")
          => \A k \in 1..Len(req[p].res.body) : req[p].res.body[k].status = "approved"

C6_GetOrCreateTwice ==
  \A n \in DomainNames :
     LET a == get_or_create_domain(domains, domain_seq, n)
         b == get_or_create_domain(a.domains, a.seq, n)
         c == BlogsDB_get_or_create_domain(domains, domain_seq, n)
         d == BlogsDB_get_or_create_domain(c.domains, c.seq, n)
     IN /\ a.id # -1
        /\ b.id = a.id
        /\ b.domains = a.domains
        /\ Cardinality({i \in DOMAIN b.domains : b.domains[i].name = n}) = 1
        /\ c.id # -1
        /\ d.id = c.id
        /\ d.domains = c.domains
        /\ Cardinality({i \in DOMAIN d.domains : d.domains[i].name = n}) = 1

\* A caller's get_or_create_domain has created the row of a name that did
\* not exist, and a second caller's has returned the id of that row
C6_Witness ==
  \E p, q \in Procs :
     /\ p # q
     /\ req[p].op = "db_create_blog" /\ req[p].pc = "db_select"
     /\ req[q].op = "db_create_blog" /\ req[q].pc = "db_insert"
     /\ req[q].loc = req[p].loc /\ req[q].name = req[p].name
     /\ req[p].loc > Len(default_domains)
     /\ req[p].loc \in DOMAIN domains
     /\ domains[req[p].loc].name = req[p].name

\* C7: names stay unique, and get_or_create_domain never returns None to a
\* caller: one that loses the insert to a concurrent caller of the same name
\* obtains the existing row's id.
C7_ConcurrentGetOrCreate ==
  /\ \A i, j \in DOMAIN domains : domains[i].name = domains[j].name => i = j
  /\ \A p \in Procs :
       req[p].op \in {"create_blog", "db_create_blog"} => req[p].loc # -1

\* C8: delete_domain(id).  With n > 0 blogs visible to the request that
\* reference id, it answers 400 naming n and changes nothing; with none, it
\* goes on to the DELETE, which removes and returns the row if it exists and
\* answers 404, changing nothing, if it does not; after the request a row
\* answered as deleted is not in the table, and any other answer leaves every
\* table as it was.
C8_DeleteDomainContract ==
  [][\A p \in Procs :
       (req[p].op = "delete_domain" /\ Acts(p)) =>
         LET d == req[p].id
             refs == {i \in DOMAIN VBlogs(p) : VBlogs(p)[i].domain_id = d}
             here == d \in DOMAIN VDomains(p)
         IN
         /\ (req[p].pc = "count" /\ refs # {}) =>
               /\ req'[p].pc = "finish"
               /\ req'[p].res.code = 400
               /\ req'[p].res.n = Cardinality(refs)
               /\ UNCHANGED <<tables, tx>>
         /\ (req[p].pc = "count" /\ refs = {}) =>
               (req'[p].pc = "delete" /\ UNCHANGED <<tables, tx>>)
         /\ (req[p].pc = "delete" /\ here) =>
               /\ req'[p].res.code = 200
               /\ req'[p].res.body = << [id |-> d, name |-> VDomains(p)[d].name] >>
               /\ d \in tx'[p].ddel
         /\ (req[p].pc = "delete" /\ ~here) =>
               (req'[p].res.code = 404 /\ UNCHANGED <<tables, tx>>)
         /\ req[p].pc = "finish" =>
               IF req[p].res.code = 200
               THEN d \notin DOMAIN domains'
               ELSE UNCHANGED tables]_vars

\* A delete has been refused with a count of two blogs, both still stored
C8_Witness ==
  \E p \in Procs :
     /\ req[p].op = "delete_domain"
     /\ req[p].pc = "finish"
     /\ req[p].res.code = 400
     /\ req[p].res.n = 2
     /\ Cardinality({i \in DOMAIN blogs : blogs[i].domain_id = req[p].id}) = 2

\* C9: no step of delete_domain removes a domain row that an event
\* references, and none removes an event row.
C9_EventsBlockDelete ==
  [][\A p \in Procs :
       (req[p].op = "delete_domain" /\ Acts(p)) =>
          /\ DOMAIN events \subseteq DOMAIN events'
          /\ \A d \in DOMAIN domains \ DOMAIN domains' : EventsOf(events, d) = {}]_vars

\* C10: no step of delete_domain removes a blog row, in any interleaving
\* with the calls that attach blogs to the domain.
C10_DeleteNeverCascades ==
  [][\A p \in Procs :
       (req[p].op = "delete_domain" /\ Acts(p)) =>
          DOMAIN blogs \subseteq DOMAIN blogs']_vars

C12_DuplicateDistinguishable ==
  \A p, q \in Procs :
     ( /\ req[p].pc \in {"respond", "finish"} /\ req[p].pre = "duplicate"
       /\ req[q].pc \in {"respond", "finish"}
       /\ req[q].pre \in {"no_event", "no_table", "undefined_column"}
       /\ req[p].op = req[q].op )
     => <<req[p].res.code, req[p].res.detail>> # <<req[q].res.code, req[q].res.detail>>

\* What holds of a submitted blog on tables vb, vd; r is its request
C13_Submitted(vb, vd, r) ==
  LET i == r.res.body[1].id IN
  /\ i \in DOMAIN vb /\ vb[i].status = "pending"
  /\ i \in PendingListing(vb, vd)
  /\ i \notin PublicListing(vb, vd)
  /\ \E d \in DOMAIN vd : vd[d].name = r.name
\* C13: when create_blog has returned a blog, and again when its transaction
\* is committed, the blog has status 'pending', list_pending_blogs contains
\* it, the public list_blogs does not, and a domain row with the submitted
\* name exists.
C13_SubmittedIsPending ==
  [][\A p \in Procs :
       /\ ( /\ req[p].op = "create_blog" /\ req[p].pc = "insert"
            /\ req'[p].pc = "finish" /\ req'[p].res.code = 200 )
          => C13_Submitted(VBlogs(p)', VDomains(p)', req'[p])
       /\ ( /\ req[p].op = "create_blog" /\ req[p].pc = "finish"
            /\ req[p].res.code = 200 /\ req'[p].pc = "idle" )
          => C13_Submitted(blogs', domains', req[p])]_vars

\* A blog submitted under a domain name that had no row has been committed
C13_Witness ==
  \E i \in DOMAIN blogs :
     /\ blogs[i].status = "pending"
     /\ blogs[i].domain_id \in DOMAIN domains
     /\ blogs[i].domain_id > Len(default_domains)
     /\ i \in PendingListing(blogs, domains)

\* What holds of an approved blog i on tables vb, vd
C14_Approved(vb, vd, i) ==
  /\ i \notin PendingListing(vb, vd)
  /\ i \in PublicListing(vb, vd)
\* C14: when approve_blog has succeeded on a blog that was pending, and
\* again when its transaction is committed, list_pending_blogs does not
\* contain the blog and the public list_blogs does; at every moment no blog
\* is in both listings.
C14_ApprovedMovesListing ==
  /\ [](PendingListing(blogs, domains) \cap PublicListing(blogs, domains) = {})
  /\ [][\A p \in Procs :
       /\ ( /\ req[p].op = "approve_blog" /\ req[p].pc = "update"
            /\ req[p].pre = "pending"
            /\ req'[p].pc = "finish" /\ req'[p].res.code = 200 )
          => C14_Approved(VBlogs(p)', VDomains(p)', req[p].id)
       /\ ( /\ req[p].op = "approve_blog" /\ req[p].pc = "finish"
            /\ req[p].pre = "pending"
            /\ req[p].res.code = 200 /\ req'[p].pc = "idle" )
          => C14_Approved(blogs', domains', req[p].id)]_vars

\* A pending blog has been approved and is in the public listing
C14_Witness ==
  \E i \in DOMAIN blogs :
     /\ blogs[i].status = "approved"
     /\ i \in PublicListing(blogs, domains)
     /\ \E p \in Procs : req[p].op = "list_blogs" /\ req[p].pc = "finish"
                          /\ \E k \in 1..Len(req[p].res.body) : req[p].res.body[k].id = i

\* C15: the connections checked out of each pool are exactly those of the
\* calls in flight that obtained one, on every path: a call that has
\* returned or raised to its caller holds none, whether its statement, its
\* commit or its rollback raised; and no more than the maximum are out.
C15_ConnectionsReturned ==
  /\ used = {p \in Procs : exec[p].conn}
  /\ \A p \in Procs :
       /\ exec[p].conn => req[p].pc \in {"execute", "commit", "except", "finally"}
       /\ req[p].pc \in {"execute", "commit"} => exec[p].conn
       /\ req[p].pc \in {"idle", "getconn", "respond"} => p \notin used
  /\ Cardinality(used) <= DB_POOL_MAX
  /\ app_used = {p \in Procs : req[p].op = "create_blog"}
  /\ Cardinality(app_used) <= DB_POOL_maxconn

\* A call whose statement raised has answered, and no connection is out
C15_Witness ==
  \E p \in Procs :
     /\ req[p].op = "execute_insert"
     /\ req[p].pc = "respond"
     /\ req[p].pre = "unique_violation"
     /\ used = {}

\* C16: a call of the executor whose statement raised has rolled back when
\* the error reaches its caller: its transaction is gone, no step of the
\* call has changed a table, the caller gets the error and not a result, and
\* the statement ran once.
C16_FailedStatementRolledBack ==
  [][\A p \in Procs :
       ( /\ req[p].op \in {"execute_query", "execute_insert"}
         /\ Acts(p)
         /\ exec'[p].err \in {"unique_violation", "store_failure", "commit_failure"} )
       => /\ tables' = tables
          /\ exec'[p].ran <= 1
          /\ req'[p].pc = "respond" =>
               /\ tx'[p] = NoTx
               /\ exec[p].conn => exec[p].rolled
               /\ req'[p].pre = exec[p].err
               /\ req'[p].res.body = <<>>]_vars

\* An INSERT that ran and raised has been handed to its caller
C16_Witness ==
  \E p \in Procs :
     /\ req[p].op = "execute_insert"
     /\ req[p].pc = "respond"
     /\ req[p].pre \in {"unique_violation", "store_failure"}
     /\ exec[p].ran = 1
     /\ exec[p].rolled

\* C17: with the maximum of connections checked out, a further acquisition
\* raises: the count stays as it is, the caller gets no connection, nothing
\* is released for it, and no statement runs.
C17_ExhaustedPoolRefuses ==
  [][\A p \in Procs :
       ( /\ req[p].op \in {"execute_query", "execute_insert"}
         /\ Acts(p)
         /\ \/ req[p].pc = "getconn" /\ Cardinality(used) >= DB_POOL_MAX
            \/ exec[p].err = "pool_exhausted" )
       => /\ used' = used
          /\ ~exec'[p].conn
          /\ exec'[p].err = "pool_exhausted"
          /\ exec'[p].ran = 0
          /\ tables' = tables /\ tx' = tx
          /\ req'[p].pc = "respond" => req'[p].pre = "pool_exhausted"]_vars

\* A call refused by the exhausted pool has answered while the connection
\* of the other call is still out
C17_Witness ==
  \E p, q \in Procs :
     /\ req[p].pc = "respond" /\ req[p].pre = "pool_exhausted"
     /\ used = {q} /\ q # p

\* C18: a call of a repository function that failed on the store or on the
\* exhausted pool is answered with a 5xx status.
C18_StoreFailureIs500 ==
  \A p \in Procs :
     ( /\ req[p].op \in {"execute_query", "execute_insert"}
       /\ req[p].pc = "respond"
       /\ req[p].pre \in {"store_failure", "pool_exhausted", "commit_failure"} )
     => req[p].res.code >= 500

\* C19: repair_database creates the tables that are missing and leaves the
\* rows of the others as they are; it inserts the five default domains
\* exactly when the domains table has no row; and run twice it leaves the
\* store as one run does.
C19_RepairIdempotent ==
  /\ [](LET a == ensure_tables_exist(schema, domains, domain_seq)
            b == ensure_tables_exist(a.schema, a.domains, a.seq)
        IN b = a)
  /\ [][\A p \in Procs :
       (req[p].pc = "idle" /\ req'[p].op = "repair_database") =>
          /\ schema' = required_tables
          /\ blogs' = blogs /\ events' = events
          /\ "event_registrations" \in schema => registrations' = registrations
          /\ IF Cardinality(DOMAIN domains) = 0
             THEN /\ Cardinality(DOMAIN domains') = Len(default_domains)
                  /\ {domains'[i].name : i \in DOMAIN domains'}
                        = {default_domains[k] : k \in 1..Len(default_domains)}
             ELSE domains' = domains]_vars

\* A repair has recreated the dropped table and seeded the emptied domains
C19_Witness ==
  \E p \in Procs :
     /\ req[p].op = "repair_database"
     /\ req[p].pc = "respond"
     /\ schema = required_tables
     /\ Cardinality(DOMAIN domains) = Len(default_domains)
     /\ \A i \in DOMAIN domains : i > Len(default_domains)

\* C20: check_database_health answers 'healthy' exactly when the four
\* required tables exist and 'missing_tables' otherwise, and it lists the
\* tables that exist with their row counts.
C20_HealthReportsTables ==
  \A p \in Procs :
     (req[p].op = "check_database_health" /\ req[p].pc = "respond") =>
        LET h == req[p].res.body[1] IN
        /\ h.status = (IF req[p].pre = "all" THEN "healthy" ELSE "missing_tables")
        /\ req[p].pre = "all" =>
             /\ h.existing_tables = required_tables
             /\ h.table_counts["domains"] = req[p].loc

\* C21: once every executor call made has come back, success or failure, the
\* counter of each statement kind equals the number of latency observations
\* of that kind, and both equal the number of executor calls made with a
\* statement of that kind.
C21_CounterMatchesObservations ==
  (\A p \in Procs : req[p].op \notin {"execute_query", "execute_insert"})
    => \A k \in QueryTypes :
         /\ db_query_total[k] = db_query_duration_seconds[k]
         /\ db_query_total[k] = executor_calls[k]

\* C22: whenever list_pending_blogs answers, its rows are pending blogs, each
\* once, in ascending order of created_at; whenever list_blogs answers, under
\* any filter, its rows are approved blogs, each once, in descending order of
\* created_at.
C22_ListingsOrdered ==
  [][\A p \in Procs :
       LET b == req'[p].res.body IN
       /\ (req[p].op = "list_pending_blogs" /\ req[p].pc = "select" /\ Acts(p))
            => /\ \A i \in 1..Len(b) : b[i].status = "pending"
               /\ \A i, j \in 1..Len(b) :
                    i < j => b[i].id # b[j].id /\ b[i].created_at <= b[j].created_at
               /\ {b[i].id : i \in 1..Len(b)} = PendingListing(VBlogs(p), VDomains(p))
       /\ (req[p].op = "list_blogs" /\ req[p].pc = "select" /\ Acts(p))
            => /\ \A i \in 1..Len(b) : b[i].status = "approved"
               /\ \A i, j \in 1..Len(b) :
                    i < j => b[i].id # b[j].id /\ b[i].created_at >= b[j].created_at
               /\ (req[p].name \in {None, ""} /\ req[p].search = <<>>)
                    => {b[i].id : i \in 1..Len(b)} = PublicListing(VBlogs(p), VDomains(p))]_vars

\* Two clients hold answers at once: one the pending listing of two blogs
\* submitted at different times, the other the public listing of the same
\* two blogs, approved since
C22_Witness ==
  \E p, q \in Procs :
    /\ req[p].op = "list_pending_blogs" /\ req[p].pc = "finish"
    /\ Len(req[p].res.body) = 2
    /\ req[p].res.body[1].created_at < req[p].res.body[2].created_at
    /\ req[q].op = "list_blogs" /\ req[q].pc = "finish"
    /\ Len(req[q].res.body) = 2
    /\ req[q].res.body[1].created_at > req[q].res.body[2].created_at

\* C23: whenever either listing of the registrations of an event answers,
\* its rows are the registrations of that event, each once, in ascending
\* order of creation time.
C23_RegistrationsOldestFirst ==
  [][\A p \in Procs :
       LET b == req'[p].res.body IN
       (/\ \/ req[p].op = "db_get_registrations" /\ req[p].pc = "db_select"
           \/ req[p].op = "list_registrations" /\ req[p].pc = "select"
        /\ Acts(p))
         => /\ {b[i].id : i \in 1..Len(b)} = RegistrationsOf(events, registrations, req[p].id)
            /\ \A i, j \in 1..Len(b) :
                 i < j => b[i].id # b[j].id /\ b[i].created_at <= b[j].created_at]_vars

\* C24: once shutdown_event has been handled, both background tasks have been
\* cancelled, and neither makes another sampling iteration.
C24_TasksCancelledAtShutdown ==
  [][/\ (lifecycle' \in {"shutdown", "closed"})
          => \A t \in TaskNames : tasks'[t] = "cancelled"
     /\ (lifecycle \in {"shutdown", "closed"}) => UNCHANGED iterations]_vars

\* C27: update_event answers 'not found' exactly when no event has the id;
\* for an existing event and any patch, the empty one included, it answers
\* with the event, every field the patch leaves out keeping its value (the
\* whole row for the empty patch).  Patches naming a domain that does not
\* exist are left aside.
C27_UpdateEventContract ==
  [][\A p \in Procs :
       (/\ req[p].op = "update_event" /\ req[p].pc = "update" /\ Acts(p)
        /\ req[p].patch.domain_id \in {0} \cup DOMAIN VDomains(p))
         => LET old == VEvents(p)
                e == req[p].id
                a == req'[p].res
            IN /\ (a.code = 404) <=> (e \notin DOMAIN old)
               /\ e \in DOMAIN old
                    => /\ a.code = 200
                       /\ Len(a.body) = 1
                       /\ a.body[1].id = e
                       /\ \A f \in DOMAIN old[e] \ event_fields(req[p].patch) :
                            f # "updated_at" => a.body[1][f] = old[e][f]
                       /\ req[p].patch = EmptyPatch => tx'[p] = tx[p]]_vars

\* C25: whenever an update_blog writes title, content or domain of a blog,
\* whichever approve_blog or reject_blog ran meanwhile, the blog is pending
\* at the moment of the write.
C25_UpdateWritesPendingOnly ==
  [][\A p \in Procs :
       /\ (req[p].op = "update_blog" /\ req[p].pc = "update"
             /\ tx'[p].bput # tx[p].bput)
            => VBlogs(p)[req[p].id].status = "pending"
       /\ (req[p].op = "db_update_blog" /\ req[p].pc = "db_update"
             /\ Acts(p) /\ blogs' # blogs)
            => blogs[req[p].id].status = "pending"]_vars

\* C26: in every reachable state the status of every blog, committed or
\* written by a transaction still open, is 'pending', 'approved' or
\* 'rejected'.
C26_StatusInDomain ==
  /\ \A i \in DOMAIN blogs : blogs[i].status \in {"pending", "approved", "rejected"}
  /\ \A p \in Procs : \A i \in DOMAIN tx[p].bput :
       tx[p].bput[i].status \in {"pending", "approved", "rejected"}

\* A blog submitted as pending and approved since is being rejected by an
\* open transaction
C26_Witness ==
  \E p \in Procs : \E i \in DOMAIN blogs :
    /\ blogs[i].status = "approved"
    /\ i \in DOMAIN tx[p].bput
    /\ tx[p].bput[i].status = "rejected"

\* C28: whenever /admin/health answers after a count query of the dashboard
\* failed, it reports the database 'unhealthy' and the status 'degraded';
\* it reports 'healthy' only when the count queries succeeded.
C28_HealthReflectsFailure ==
  [][\A p \in Procs :
       (req[p].op = "health_check" /\ req[p].pc = "answer" /\ Acts(p))
         => LET a == req'[p].res.body[1] IN
            /\ req[p].pre # "none"
                 => a.database = "unhealthy" /\ a.status = "degraded"
            /\ a.database = "healthy" => req[p].pre = "none"]_vars

\* C29: when a submission that returns no blog is over (the answer of
\* main.create_blog is ready, or the request of the app has committed), the
\* store holds neither a domain row nor a blog row that the submission
\* inserted.
C29_FailedSubmissionLeavesNothing ==
  [][\A p \in Procs :
       /\ (req[p].op = "db_create_blog" /\ req[p].pc # "respond"
             /\ req'[p].pc = "respond" /\ req'[p].res.code # 200)
            => /\ req'[p].made # 0 => req'[p].made \notin DOMAIN domains'
               /\ req'[p].id # 0 => req'[p].id \notin DOMAIN blogs'
       /\ (req[p].op = "create_blog" /\ req[p].pc = "finish" /\ Acts(p)
             /\ req[p].res.code # 200)
            => /\ req[p].made # 0 => req[p].made \notin DOMAIN domains'
               /\ \A i \in DOMAIN tx[p].bput : i \notin DOMAIN blogs']_vars

\* C30: when two clients hold the successful answers of two updates of the
\* same pending blog, one setting only the title and the other only the
\* content, the blog carries both the new title and the new content.
C30_DisjointUpdatesBothKept ==
  \A p, q \in Procs :
    (/\ req[p].op = "db_update_blog" /\ req[p].pc = "respond"
     /\ req[q].op = "db_update_blog" /\ req[q].pc = "respond"
     /\ req[p].res.code = 200 /\ req[q].res.code = 200
     /\ req[p].id = req[q].id
     /\ req[p].patch = TitlePatch /\ req[q].patch = ContentPatch)
      => /\ blogs[req[p].id].title = TitlePatch.title
         /\ blogs[req[p].id].content = ContentPatch.content

====
